---------------------------- MODULE Spec2Model ----------------------------
(***************************************************************************)
(* WWARA band-plan conformance: the Channel model (channel.py), the Rule   *)
(* containment test (rule.py), the band plan (wwara/plan.py) and the QA    *)
(* validator (wwara/qa.py).                                                *)
(*                                                                         *)
(* Decimal values are kept exact as fixed-point integers:                  *)
(*   MHz fields (low, high, offset, output, input) in units of 100 Hz,     *)
(*   kHz fields (spacing, bandwidth) in units of 10 Hz.                    *)
(* A Python value that may be None, a number or a text is a record        *)
(* [kind, val, len]; text that the code edits (the call sign) is a record *)
(* [kind, chars] holding a sequence of one-character strings.             *)
(***************************************************************************)
EXTENDS Integers, Sequences, FiniteSets, TLC

VARIABLES
    channel,    \* the Channel object under work (its attributes except .rules)
    given,      \* the arguments Channel(...) was called with for it
    rules,      \* the dict object channel.rules, in insertion order; a copy()
                \* of the channel shares this very object
    inverse,    \* None, or the latest result of ~channel / ~inverse
    depth,      \* how many inversions lie between channel and inverse
    SEEN,       \* wwara.qa.SEEN: the attributes of its members
    stored,     \* whether the channel object itself is a member of SEEN
    report,     \* what the latest call of test() returned
    calls,      \* the channels passed to test() so far in this session
    plan,       \* the rule list match() iterates
    op,         \* the latest operation
    sets,       \* how many times __setitem__ was called in this session
    probe,      \* the rule and the result of the latest containment / match
    elist,      \* the list of export entries handed to _dedup_names
    before,     \* that list as it was when _dedup_names was last called
    log,        \* the names printed to stderr by the latest _dedup_names
    runs,       \* how many times _dedup_names was called on the list
    applied,    \* the tag the latest _dedup_names renamed each entry with
    message,    \* the comments of the delta report's line for the channel
    read        \* the key and the outcome of the latest channel[key]

vars ==
    <<channel, given, rules, inverse, depth, SEEN, stored, report, calls, plan,
      op, sets, probe, elist, before, log, runs, applied, message, read>>

channelVars ==
    <<channel, given, rules, inverse, depth, SEEN, stored, report, calls, plan,
      sets, probe>>

namerVars == <<elist, before, log, runs, applied>>

outVars == <<message, read>>

----------------------------------------------------------------------------
(* Bounds of the model *)

MaxCalls == 2
MaxInvert == 2
MaxSets == 1
MaxBatch == 3
MaxRuns == 2

----------------------------------------------------------------------------
(* Values *)

\* None, a number (Decimal or int), a text of len characters that reads as val
None == [kind |-> "none", val |-> 0, len |-> 0]
Num(v) == [kind |-> "num", val |-> v, len |-> 0]
Text(v, n) == [kind |-> "text", val |-> v, len |-> n]

\* None and a str given by its characters
NoneStr == [kind |-> "none", chars |-> <<>>]
Str(chars) == [kind |-> "str", chars |-> chars]

\* bool(x): None, zero and the empty text are false
Truthy(x) ==
    \/ x.kind = "num" /\ x.val # 0
    \/ x.kind = "text" /\ x.len > 0

TruthyStr(x) == x.kind = "str" /\ Len(x.chars) > 0

\* x or None
OrNone(x) == IF Truthy(x) THEN x ELSE None

OrNoneStr(x) == IF TruthyStr(x) THEN x ELSE NoneStr

\* Decimal(x) of a true x
Decimal(x) == Num(x.val)

\* units per MHz of a MHz field, units per kHz of a kHz field
MHz == 10000
KHz == 100

\* Decimal("146.62") as a MHz field: whole part and four decimals
F(whole, frac) == whole * MHz + frac
\* Decimal("12.5") as a kHz field: whole part and two decimals
K(whole, frac) == whole * KHz + frac

\* Decimal remainder: the result takes the sign of the dividend
DecRem(a, b) ==
    LET m == IF b < 0 THEN -b ELSE b
    IN  IF a >= 0 THEN a % m ELSE -((-a) % m)

----------------------------------------------------------------------------
(* rule.py *)

Rule(low, high, offset, spacing, bandwidth) ==
    [low |-> low, high |-> high, offset |-> offset,
     spacing |-> spacing, bandwidth |-> bandwidth]

\* the default of Rule.__init__'s bandwidth parameter
RuleDefaultBandwidth == K(25, 0)

Rule4(low, high, offset, spacing) ==
    Rule(low, high, offset, spacing, RuleDefaultBandwidth)

\* channel.offset
ChannelOffset(c) == c.input - c.output

InRangeStrict(c, r) == r.low < c.output /\ c.output < r.high

\* self.low <= channel.output <= self.high
InRange(c, r) == r.low <= c.output /\ c.output <= r.high

OffsetLoose(c, r) ==
    \/ ChannelOffset(c) = r.offset
    \/ ChannelOffset(c) = -r.offset

\* channel.offset == self.offset
OffsetOK(c, r) == ChannelOffset(c) = r.offset

\* (self.spacing / 1000) or 1, a MHz value
EffectiveSpacing(r) ==
    LET q == (r.spacing * MHz) \div (1000 * KHz)
    IN  IF q = 0 THEN 1 * MHz ELSE q

SpacingFromZero(c, r) == DecRem(c.output, EffectiveSpacing(r)) = 0

\* (channel.output - self.low) % ((self.spacing / 1000) or 1) == 0
SpacingOK(c, r) == DecRem(c.output - r.low, EffectiveSpacing(r)) = 0

BandwidthStrict(c, r) == c.bandwidth < r.bandwidth

\* channel.bandwidth <= self.bandwidth
BandwidthOK(c, r) == c.bandwidth <= r.bandwidth

(* The dict channel.rules: a sequence of [rule, match] items in insertion *)
(* order; assigning to a key that is present keeps its place.             *)
DictKeys(d) == {d[i].rule : i \in 1..Len(d)}

DictGet(d, k) == (CHOOSE i \in 1..Len(d) : d[i].rule = k)

DictValue(d, k) == d[DictGet(d, k)].match

DictSet(d, k, v) ==
    IF k \in DictKeys(d)
    THEN [d EXCEPT ![DictGet(d, k)] = [rule |-> k, match |-> v]]
    ELSE Append(d, [rule |-> k, match |-> v])

DictAdd(d, k, x) == DictSet(d, k, DictValue(d, k) \cup {x})

\* Rule.__contains__(self = r, channel = c), d the dict c.rules:
\* the value returned and the dict afterwards
Contains(c, d, r) ==
    IF InRange(c, r)
    THEN LET d0 == DictSet(d, r, {})
         IN  IF ~OffsetOK(c, r)
             THEN [result |-> FALSE, rules |-> d0]
             ELSE LET d1 == DictAdd(d0, r, "offset")
                  IN  IF ~SpacingOK(c, r)
                      THEN [result |-> FALSE, rules |-> d1]
                      ELSE LET d2 == DictAdd(d1, r, "spacing")
                           IN  IF ~BandwidthOK(c, r)
                               THEN [result |-> FALSE, rules |-> d2]
                               ELSE [result |-> TRUE,
                                     rules |-> DictAdd(d2, r, "bandwidth")]
    ELSE [result |-> FALSE, rules |-> d]

----------------------------------------------------------------------------
(* channel.py *)

RECURSIVE LStrip(_)
LStrip(s) ==
    IF Len(s) > 0 /\ Head(s) = " " THEN LStrip(Tail(s)) ELSE s

RECURSIVE RStrip(_)
RStrip(s) ==
    IF Len(s) > 0 /\ s[Len(s)] = " "
    THEN RStrip(SubSeq(s, 1, Len(s) - 1))
    ELSE s

\* str.strip()
Strip(s) == RStrip(LStrip(s))

\* m in channel.modes
HasMode(c, m) == \E i \in 1..Len(c.modes) : c.modes[i] = m

ModeAttrNoDefault(declared, x) == OrNone(x)

\* the attribute of a declared mode: Decimal(value), or Decimal(0) without one
ModeAttr(declared, x) ==
    IF declared
    THEN (IF Truthy(OrNone(x)) THEN Decimal(x) ELSE Num(0))
    ELSE OrNone(x)

\* Channel.__init__ on the arguments a; the dict self.rules = {} is the
\* variable rules
NewChannel(a) ==
    LET output == a.output
        modes == IF Len(a.modes) > 0 THEN a.modes ELSE <<>>
        declared(m) == \E i \in 1..Len(modes) : modes[i] = m
    IN  [call |-> IF TruthyStr(a.call) THEN Str(Strip(a.call.chars)) ELSE NoneStr,
         output |-> output,
         input |-> IF Truthy(a.input) THEN a.input.val
                   ELSE IF Truthy(a.offset) THEN output + a.offset.val
                   ELSE output,
         bandwidth |-> a.bandwidth,
         modes |-> modes,
         output_tone |-> IF Truthy(a.output_tone) THEN Decimal(a.output_tone) ELSE None,
         input_tone |-> IF Truthy(a.input_tone) THEN Decimal(a.input_tone) ELSE None,
         output_code |-> OrNone(a.output_code),
         input_code |-> OrNone(a.input_code),
         p25_phase |-> OrNone(a.p25_phase),
         p25_nac |-> OrNone(a.p25_nac),
         dstar_mode |-> OrNone(a.dstar_mode),
         nxdn_ran |-> OrNone(a.nxdn_ran),
         dmr_cc |-> ModeAttr(declared("DMR"), a.dmr_cc),
         c4fm_dsq |-> ModeAttr(declared("C4FM"), a.c4fm_dsq),
         location |-> OrNoneStr(a.location),
         latitude |-> IF Truthy(a.latitude) THEN Decimal(a.latitude) ELSE None,
         longitude |-> IF Truthy(a.longitude) THEN Decimal(a.longitude) ELSE None,
         rx_only |-> a.rx_only,
         name |-> NoneStr,
         number |-> 0]

\* Channel.__hash__: the tuple that is hashed
ChannelHash(c) ==
    <<c.call, c.output, c.input, c.input_tone, c.input_code,
      c.p25_nac, c.nxdn_ran, c.dmr_cc, c.c4fm_dsq>>

ChannelEqWithoutDsq(c, o) ==
    /\ c.call = o.call
    /\ c.output = o.output
    /\ c.input = o.input
    /\ c.input_tone = o.input_tone
    /\ c.input_code = o.input_code
    /\ c.p25_nac = o.p25_nac
    /\ c.nxdn_ran = o.nxdn_ran
    /\ c.dmr_cc = o.dmr_cc

\* Channel.__eq__
ChannelEq(c, o) ==
    /\ c.call = o.call
    /\ c.output = o.output
    /\ c.input = o.input
    /\ c.input_tone = o.input_tone
    /\ c.input_code = o.input_code
    /\ c.p25_nac = o.p25_nac
    /\ c.nxdn_ran = o.nxdn_ran
    /\ c.dmr_cc = o.dmr_cc
    /\ c.c4fm_dsq = o.c4fm_dsq

InvertOutputOnly(c) ==
    [self |-> c, inverse |-> [c EXCEPT !.output = c.input]]

InvertInPlace(c) ==
    LET swapped == [c EXCEPT !.output = c.input, !.input = c.output]
    IN  [self |-> swapped, inverse |-> swapped]

\* Channel.__invert__: the attributes of self afterwards and of the copy that
\* is returned; the copy's .rules is the dict of the original (copy() is
\* shallow)
Invert(c) ==
    [self |-> c,
     inverse |-> [c EXCEPT !.output = c.input, !.input = c.output]]

\* the first inserted item among the shortest
RECURSIVE WorstFrom(_, _, _)
WorstFrom(d, i, best) ==
    IF i > Len(d) THEN best
    ELSE WorstFrom(d, i + 1,
                   IF Cardinality(d[i].match) < Cardinality(d[best].match)
                   THEN i ELSE best)

\* the item sorted(..., key=len of the match, reverse=True)[0] picks: the
\* sort is stable, so the first inserted item among the longest
RECURSIVE BestFrom(_, _, _)
BestFrom(d, i, best) ==
    IF i > Len(d) THEN best
    ELSE BestFrom(d, i + 1,
                  IF Cardinality(d[i].match) > Cardinality(d[best].match)
                  THEN i ELSE best)

ErrorsOfFirstRule(d) ==
    IF Len(d) > 0
    THEN LET match == d[1].match
         IN  (IF "offset" \notin match THEN <<"WRONG OFFSET">> ELSE <<>>)
             \o (IF "spacing" \notin match THEN <<"MISALIGNED">> ELSE <<>>)
             \o (IF "bandwidth" \notin match THEN <<"TOO WIDE">> ELSE <<>>)
    ELSE <<>>

\* Channel.errors, d the dict self.rules
Errors(d) ==
    IF Len(d) > 0
    THEN LET match == d[BestFrom(d, 1, 1)].match
         IN  (IF "offset" \notin match THEN <<"WRONG OFFSET">> ELSE <<>>)
             \o (IF "spacing" \notin match THEN <<"MISALIGNED">> ELSE <<>>)
             \o (IF "bandwidth" \notin match THEN <<"TOO WIDE">> ELSE <<>>)
    ELSE <<>>

----------------------------------------------------------------------------
(* wwara/plan.py *)

REPEATERS == <<
    Rule4(F(29, 6200), F(29, 6800), -F(0, 1000), K(20, 0)),
    Rule4(F(52, 8100), F(53, 9900), -F(1, 7000), K(20, 0)),
    Rule4(F(145, 1100), F(145, 1900), -F(0, 6000), K(20, 0)),
    Rule4(F(145, 2100), F(145, 4900), -F(0, 6000), K(20, 0)),
    Rule(F(145, 1000), F(145, 4875), -F(0, 6000), K(12, 50), K(12, 50)),
    Rule(F(146, 6050), F(146, 6050), -F(0, 6000), K(0, 0), K(6, 25)),
    Rule(F(147, 9950), F(147, 9950), -F(0, 6000), K(0, 0), K(6, 25)),
    Rule(F(146, 4125), F(146, 5000), F(1, 0), K(12, 50), K(12, 50)),
    Rule4(F(146, 6200), F(147, 0), -F(0, 6000), K(20, 0)),
    Rule(F(146, 6250), F(146, 9875), -F(0, 6000), K(12, 50), K(12, 50)),
    Rule4(F(147, 0), F(147, 3800), F(0, 6000), K(20, 0)),
    Rule(F(146, 6250), F(146, 9875), F(0, 6000), K(12, 50), K(12, 50)),
    Rule4(F(223, 7800), F(223, 9800), -F(1, 6000), K(20, 0)),
    Rule4(F(224, 200), F(224, 6200), -F(1, 6000), K(20, 0)),
    Rule4(F(224, 6800), F(224, 8200), -F(1, 6000), K(20, 0)),
    Rule4(F(224, 8600), F(224, 9800), -F(1, 6000), K(20, 0)),
    Rule(F(440, 125), F(440, 125), F(5, 0), K(0, 0), K(12, 50)),
    Rule(F(440, 375), F(440, 7875), F(5, 0), K(12, 50), K(12, 50)),
    Rule(F(440, 500), F(440, 6750), F(5, 0), K(25, 0), K(25, 0)),
    Rule(F(440, 9250), F(440, 9750), F(5, 0), K(25, 0), K(25, 0)),
    Rule(F(440, 9125), F(440, 9875), F(5, 0), K(12, 50), K(12, 50)),
    Rule(F(441, 125), F(442, 9875), F(5, 0), K(12, 50), K(12, 50)),
    Rule(F(441, 250), F(442, 9750), F(5, 0), K(25, 0), K(25, 0)),
    Rule(F(443, 125), F(444, 9875), F(5, 0), K(12, 50), K(12, 50)),
    Rule(F(442, 250), F(444, 9750), F(5, 0), K(25, 0), K(25, 0)),
    Rule4(F(927, 2125), F(927, 9875), -F(25, 0), K(12, 50)),
    Rule4(F(1247, 0), F(1252, 0), F(0, 0), K(25, 0)),
    Rule4(F(1290, 0), F(1291, 0), -F(20, 0), K(25, 0)),
    Rule4(F(1290, 0), F(1295, 0), -F(20, 0), K(25, 0))
>>

\* in_region's rectangle, whole degrees
REGION == [south |-> 45, north |-> 50, west |-> -125, east |-> -120]

\* wwara.plan.in_region(channel): a channel without coordinates is not outside
InRegion(c) ==
    \/ c.latitude.kind = "none"
    \/ c.longitude.kind = "none"
    \/ /\ REGION.south <= c.latitude.val /\ c.latitude.val <= REGION.north
       /\ REGION.west <= c.longitude.val /\ c.longitude.val <= REGION.east

\* wwara.plan.match(channel) over the rules pl[i..]: every rule is evaluated,
\* each on the dict the one before left; true when some rule matched in full
RECURSIVE MatchFrom(_, _, _, _)
MatchFrom(c, d, pl, i) ==
    IF i > Len(pl) THEN [result |-> FALSE, rules |-> d]
    ELSE LET here == Contains(c, d, pl[i])
             rest == MatchFrom(c, here.rules, pl, i + 1)
         IN  [result |-> here.result \/ rest.result, rules |-> rest.rules]

Match(c, d, pl) == MatchFrom(c, d, pl, 1)

----------------------------------------------------------------------------
(* wwara/qa.py *)

Tag(cond, t) == IF cond THEN <<t>> ELSE <<>>

\* channel in SEEN: set membership goes by __hash__ and __eq__
InSeen(c, seen) ==
    \E s \in seen : ChannelHash(s) = ChannelHash(c) /\ ChannelEq(s, c)

SeenAddNever(c, seen) == seen

\* SEEN.add(channel): an equal member stays, nothing is added
SeenAdd(c, seen) == IF InSeen(c, seen) THEN seen ELSE seen \cup {c}

\* the comparisons 0 <= channel.c4fm_dsq <= n raise TypeError unless the
\* value is a number
DsqRaises(c) == HasMode(c, "C4FM") /\ c.c4fm_dsq.kind # "num"

ModeTagsMissingOnly(declared, x, missing, extra) ==
    Tag(declared /\ x.kind = "none", missing)

\* the part of test() for one digital mode whose identifier x a missing value
\* and an extra value are both errors
ModeTags(declared, x, missing, extra) ==
    IF declared THEN Tag(x.kind = "none", missing)
    ELSE Tag(x.kind # "none", extra)

ToneTagsEitherMissing(c) ==
    LET tone == Truthy(c.input_tone)
        code == Truthy(c.input_code)
    IN  IF HasMode(c, "FM")
        THEN Tag(~(tone /\ code), "NO TONE/CODE")
             \o Tag(tone /\ code, "AMBIGUOUS TONE/CODE")
        ELSE Tag(tone \/ code, "EXTRA TONE/CODE")

\* the FM part of test(): lines 30-42
ToneTags(c) ==
    LET tone == Truthy(c.input_tone)
        code == Truthy(c.input_code)
    IN  IF HasMode(c, "FM")
        THEN Tag(~(tone \/ code), "NO TONE/CODE")
             \o Tag(tone /\ code, "AMBIGUOUS TONE/CODE")
        ELSE Tag(tone \/ code, "EXTRA TONE/CODE")

DsqTags(c) ==
    IF HasMode(c, "C4FM")
    THEN Tag(c.c4fm_dsq.kind = "none", "NO DSQ")
         \o Tag(~(0 <= c.c4fm_dsq.val /\ c.c4fm_dsq.val <= 99), "DG-ID OUT OF RANGE")
         \o Tag(~(0 <= c.c4fm_dsq.val /\ c.c4fm_dsq.val <= 126), "DSQ OUT OF RANGE")
    ELSE Tag(c.c4fm_dsq.kind # "none", "EXTRA C4FM DSQ/DG-ID")

\* the comments of the mode checks, in the order test() makes them: FM, DMR,
\* C4FM, P25, NXDN
ModeCommentsC4FMLast(c) ==
    ToneTags(c)
    \o ModeTags(HasMode(c, "DMR"), c.dmr_cc, "NO CC", "EXTRA DMR CC")
    \o ModeTags(HasMode(c, "P25"), c.p25_nac, "NO NAC", "EXTRA P25 NAC")
    \o ModeTags(HasMode(c, "NXDN"), c.nxdn_ran, "NO RAN", "EXTRA NXDN RAN")
    \o DsqTags(c)

ModeComments(c) ==
    ToneTags(c)
    \o ModeTags(HasMode(c, "DMR"), c.dmr_cc, "NO CC", "EXTRA DMR CC")
    \o DsqTags(c)
    \o ModeTags(HasMode(c, "P25"), c.p25_nac, "NO NAC", "EXTRA P25 NAC")
    \o ModeTags(HasMode(c, "NXDN"), c.nxdn_ran, "NO RAN", "EXTRA NXDN RAN")

MultimodeTagOverTwo(c) == Tag(Len(c.modes) > 2, "MULTIMODE")

\* if len(channel.modes) > 1: comments.append("MULTIMODE")
MultimodeTag(c) == Tag(Len(c.modes) > 1, "MULTIMODE")

\* test(channel), d the dict channel.rules, seen the set SEEN, pl the plan:
\* whether it raised, the pair it returned, and the channel, the dict and
\* SEEN afterwards
Test(c, d, seen, pl) ==
    LET direct == Match(c, d, pl)
        reversed == Match(Invert(c).inverse, direct.rules, pl)
        d2 == reversed.rules
        cc == ModeTags(HasMode(c, "DMR"), c.dmr_cc, "NO CC", "EXTRA DMR CC")
        nac == ModeTags(HasMode(c, "P25"), c.p25_nac, "NO NAC", "EXTRA P25 NAC")
        ran == ModeTags(HasMode(c, "NXDN"), c.nxdn_ran, "NO RAN", "EXTRA NXDN RAN")
    IN  IF DsqRaises(c)
        THEN [raised |-> TRUE, error |-> FALSE, comments |-> <<>>,
              channel |-> Invert(c).self, rules |-> d2, seen |-> seen]
        ELSE [raised |-> FALSE,
              error |-> \/ (~direct.result /\ ~reversed.result)
                        \/ Len(c.modes) = 0
                        \/ ~InRegion(c)
                        \/ Len(ToneTags(c)) > 0
                        \/ Len(cc) > 0
                        \/ (~HasMode(c, "C4FM") /\ Len(DsqTags(c)) > 0)
                        \/ Len(nac) > 0
                        \/ Len(ran) > 0
                        \/ Len(Errors(d2)) > 0,
              comments |-> Tag(reversed.result, "REVERSED")
                           \o Tag(Len(c.modes) = 0, "NO MODES")
                           \o Tag(~InRegion(c), "OUT OF BOUNDS")
                           \o ModeComments(c)
                           \o MultimodeTag(c)
                           \o Tag(InSeen(c, seen), "DUPLICATE")
                           \o Errors(d2),
              channel |-> Invert(c).self,
              rules |-> d2,
              seen |-> SeenAdd(c, seen)]

----------------------------------------------------------------------------
(* wwara/delta.py *)

\* Channel(call, output, input): the other arguments at their defaults
KeyArgs(call, output, input) ==
    [call |-> Str(call),
     output |-> output,
     input |-> Num(input),
     offset |-> None,
     bandwidth |-> K(25, 0),
     modes |-> <<"FM">>,
     output_tone |-> None,
     input_tone |-> None,
     output_code |-> None,
     input_code |-> None,
     p25_phase |-> None,
     p25_nac |-> None,
     dstar_mode |-> None,
     nxdn_ran |-> None,
     dmr_cc |-> None,
     c4fm_dsq |-> None,
     location |-> NoneStr,
     latitude |-> None,
     longitude |-> None,
     rx_only |-> FALSE]

WW7ATS == <<"W", "W", "7", "A", "T", "S">>
AA7MI == <<"A", "A", "7", "M", "I">>
WA7LZO == <<"W", "A", "7", "L", "Z", "O">>

\* wwara.plan.EXCEPTIONS: the keys of the dict
EXCEPTIONS ==
    {NewChannel(KeyArgs(WW7ATS, F(1253, 2500), F(434, 0))),
     NewChannel(KeyArgs(AA7MI, F(440, 7250), F(445, 7250))),
     NewChannel(KeyArgs(WA7LZO, F(442, 9000), F(447, 9000)))}

InExceptionsByCall(c) == \E k \in EXCEPTIONS : k.call = c.call

\* channel in EXCEPTIONS: dict membership goes by __hash__ and __eq__
InExceptions(c) ==
    \E k \in EXCEPTIONS : ChannelHash(k) = ChannelHash(c) /\ ChannelEq(k, c)

\* the body of lambda_handler's loop for one channel: test(channel), then
\* "ERROR!" in front of the comments of a channel in error that is no
\* exception
Delta(c, d, seen, pl) ==
    LET line(got) ==
            [test |-> got,
             message |-> IF ~got.raised /\ got.error /\ ~InExceptions(c)
                         THEN <<"ERROR!">> \o got.comments
                         ELSE got.comments]
    IN  line(Test(c, d, seen, pl))

----------------------------------------------------------------------------
(* output/opengd77.py *)

NAME_LENGTH == 16

\* wwara_gd88drs.py, wwara_gd88_cpeditor.py: NAME_LENGTH
GD88_NAME_LENGTH == 10

\* what an entry of the list is: an OpenGD77Channel, a GD88DRSChannel, or a
\* dict made by _entry of wwara_gd88_cpeditor.py
OpenGD77 == "OpenGD77Channel"
GD88DRS == "GD88DRSChannel"
CPEditor == "dict"

\* the NAME_LENGTH of the module that names the entries of a kind
NameLength(kind) == IF kind = OpenGD77 THEN NAME_LENGTH ELSE GD88_NAME_LENGTH

\* units of an output frequency per MHz: five decimals
Hz10 == 100000

\* the characters of names and frequencies, in code point order
Alphabet ==
    <<" ", ".", "0", "1", "2", "3", "4", "5", "6", "7", "8", "9",
      "A", "B", "C", "D", "E", "F", "G", "H", "I", "J", "K", "L", "M",
      "N", "O", "P", "Q", "R", "S", "T", "U", "V", "W", "X", "Y", "Z",
      "a", "b", "c", "d", "e", "f", "g", "h", "i", "j", "k", "l", "m",
      "n", "o", "p", "q", "r", "s", "t", "u", "v", "w", "x", "y", "z">>

Ord(ch) == CHOOSE i \in 1..Len(Alphabet) : Alphabet[i] = ch

DigitChar(d) == Alphabet[d + 3]

DigitValue(ch) == Ord(ch) - 3

\* str(n) of a natural number
RECURSIVE Digits(_)
Digits(n) ==
    IF n < 10 THEN <<DigitChar(n)>>
    ELSE Digits(n \div 10) \o <<DigitChar(n % 10)>>

\* OpenGD77Channel._rx_frequency: f"{Decimal(self.output):.5f}"
RxFrequency(v) ==
    LET frac == Digits(v % Hz10)
    IN  Digits(v \div Hz10) \o <<".">>
        \o [i \in 1..(5 - Len(frac)) |-> "0"] \o frac

\* Decimal(x[outputk]) of such a text, in the same units
RECURSIVE ParseFrequency(_)
ParseFrequency(s) ==
    IF Len(s) = 0 THEN 0
    ELSE IF s[Len(s)] = "." THEN ParseFrequency(SubSeq(s, 1, Len(s) - 1))
    ELSE 10 * ParseFrequency(SubSeq(s, 1, Len(s) - 1)) + DigitValue(s[Len(s)])

\* OpenGD77Channel._channel_type == "Digital"
IsDigital(e) == \E i \in 1..Len(e.modes) : e.modes[i] = "DMR"

\* entry[namek]. Channel.name of an OpenGD77Channel whose name was set:
\* _name[:name_length].rstrip(" "); GD88DRSChannel.name returns _name, and a
\* dict holds the text
GetName(e) ==
    IF e.kind = OpenGD77
    THEN RStrip(SubSeq(e.name, 1, IF Len(e.name) < NAME_LENGTH THEN Len(e.name)
                                  ELSE NAME_LENGTH))
    ELSE e.name

StartsWith(s, ch) == Len(s) > 0 /\ s[1] = ch

\* s.rstrip("0")
RECURSIVE RStripZeros(_)
RStripZeros(s) ==
    IF Len(s) > 0 /\ s[Len(s)] = "0"
    THEN RStripZeros(SubSeq(s, 1, Len(s) - 1))
    ELSE s

NotDot(ch) == ch # "."

\* entry[outputk].rstrip("0").replace(".", "")[2:]
FreqTag(out) ==
    LET digits == SelectSeq(RStripZeros(out), NotDot)
    IN  SubSeq(digits, 3, Len(digits))

\* _entry of wwara_gd88_cpeditor.py: str(int(Decimal(row["OUTPUT_FREQ"]) * 1000000))
RxFreqHz(v) == Digits(v * (1000000 \div Hz10))

\* entry[outputk] of an entry
OutputText(e) == IF e.kind = CPEditor THEN RxFreqHz(e.output) ELSE RxFrequency(e.output)

\* s.rstrip(".")
RECURSIVE RStripDots(_)
RStripDots(s) ==
    IF Len(s) > 0 /\ s[Len(s)] = "."
    THEN RStripDots(SubSeq(s, 1, Len(s) - 1))
    ELSE s

\* wwara_gd88_cpeditor.py: freq = entry["RX Freq"].rstrip("0").rstrip("."),
\* then freq[2:]
FreqTagCPEditor(out) ==
    LET freq == RStripDots(RStripZeros(out))
    IN  SubSeq(freq, 3, Len(freq))

\* s.ljust(n)
LJust(s, n) == s \o [i \in 1..(n - Len(s)) |-> " "]

\* re.sub(" +", " ", s)
RECURSIVE CollapseSpaces(_)
CollapseSpaces(s) ==
    IF Len(s) < 2 THEN s
    ELSE IF s[1] = " " /\ s[2] = " " THEN CollapseSpaces(Tail(s))
    ELSE <<s[1]>> \o CollapseSpaces(Tail(s))

\* a < b for two str
RECURSIVE StrLess(_, _)
StrLess(a, b) ==
    IF Len(b) = 0 THEN FALSE
    ELSE IF Len(a) = 0 THEN TRUE
    ELSE IF a[1] # b[1] THEN Ord(a[1]) < Ord(b[1])
    ELSE StrLess(Tail(a), Tail(b))

\* every entry of the list in one group, whatever its name
SameNameAll(es, i) == 1..Len(es)

\* the entries of names[entry[namek]]["entries"]: those of the same name
SameName(es, i) == {j \in 1..Len(es) : GetName(es[j]) = GetName(es[i])}

\* names[entry[namek]]["dups"], the counts of the first loop
Dups(es, i) ==
    LET counts(group) ==
            [DMR |-> Cardinality({j \in group : IsDigital(es[j])}),
             VHF |-> Cardinality({j \in group : StartsWith(OutputText(es[j]), "1")}),
             N220 |-> Cardinality({j \in group : StartsWith(OutputText(es[j]), "2")}),
             UHF |-> Cardinality({j \in group : StartsWith(OutputText(es[j]), "4")})]
    IN  counts(SameName(es, i))

\* the key of sorted(): (x[namek], Decimal(x[outputk]))
KeyLess(es, i, j) ==
    \/ StrLess(GetName(es[i]), GetName(es[j]))
    \/ /\ GetName(es[i]) = GetName(es[j])
       /\ ParseFrequency(OutputText(es[i])) < ParseFrequency(OutputText(es[j]))

\* the first n indices of es in the order of sorted(): an index goes behind
\* every index before it whose key is not greater, so equal keys keep their
\* order
RECURSIVE SortedFirst(_, _)
SortedFirst(es, n) ==
    IF n = 0 THEN <<>>
    ELSE LET insert(seq) ==
                 LET p == Cardinality({q \in 1..Len(seq) : ~KeyLess(es, n, seq[q])})
                 IN  SubSeq(seq, 1, p) \o <<n>> \o SubSeq(seq, p + 1, Len(seq))
         IN  insert(SortedFirst(es, n - 1))

\* sorted(elist, key=...) as the indices of elist
Sorted(es) == SortedFirst(es, Len(es))

\* the local variable tag: unbound until a branch assigns it
Unbound == [bound |-> FALSE, chars |-> <<>>]
Bound(chars) == [bound |-> TRUE, chars |-> chars]

\* the if / elif chain of wwara_gd88_cpeditor.py, which has a branch that
\* assigns the empty tag and names the 1.25 m band "1.25m"
TagOfCPEditor(es, i, prev) ==
    LET chain(out, dups) ==
            IF dups.DMR = 1 /\ IsDigital(es[i]) THEN Bound(<<"D">>)
            ELSE IF dups.DMR = 1 /\ dups.VHF <= 1 /\ dups.UHF <= 1 THEN Bound(<<>>)
            ELSE IF dups.UHF = 1 /\ StartsWith(out, "4") THEN Bound(<<"U">>)
            ELSE IF dups.N220 = 1 /\ StartsWith(out, "2")
                 THEN Bound(<<"1", ".", "2", "5", "m">>)
            ELSE IF dups.VHF = 1 /\ StartsWith(out, "1") THEN Bound(<<"V">>)
            ELSE IF \/ dups.UHF > 1 /\ StartsWith(out, "4")
                    \/ dups.N220 > 1 /\ StartsWith(out, "2")
                    \/ dups.VHF > 1 /\ StartsWith(out, "1")
                 THEN Bound(FreqTagCPEditor(out))
            ELSE prev
    IN  chain(OutputText(es[i]), Dups(es, i))

\* the if / elif chain of the second loop for entry i of the list es as it
\* was counted, prev the value tag has from the entries before
TagOf(es, i, prev) ==
    LET chain(out, dups) ==
            IF dups.DMR = 1 /\ IsDigital(es[i]) THEN Bound(<<"D">>)
            ELSE IF dups.UHF = 1 /\ StartsWith(out, "4") THEN Bound(<<"U">>)
            ELSE IF dups.N220 = 1 /\ StartsWith(out, "2") THEN Bound(<<"2">>)
            ELSE IF dups.VHF = 1 /\ StartsWith(out, "1") THEN Bound(<<"V">>)
            ELSE IF \/ dups.UHF > 1 /\ StartsWith(out, "4")
                    \/ dups.N220 > 1 /\ StartsWith(out, "2")
                    \/ dups.VHF > 1 /\ StartsWith(out, "1")
                 THEN Bound(FreqTag(out))
            ELSE prev
    IN  IF es[i].kind = CPEditor THEN TagOfCPEditor(es, i, prev)
        ELSE chain(OutputText(es[i]), Dups(es, i))

\* the tag put behind the whole name, nothing cut
TaggedWholeName(e, tag) == CollapseSpaces(GetName(e) \o tag)

\* the name assigned to entry e with tag: re.sub(" +", " ",
\* entry[namek].ljust(NAME_LENGTH)[:length] + tag), and in
\* wwara_gd88_cpeditor.py entry["CH Name"][:length] + tag
Tagged(e, tag) ==
    LET length == NameLength(e.kind) - Len(tag)
        name == GetName(e)
    IN  IF e.kind = CPEditor
        THEN SubSeq(name, 1, IF Len(name) < length THEN Len(name) ELSE length) \o tag
        ELSE CollapseSpaces(SubSeq(LJust(name, NameLength(e.kind)), 1, length) \o tag)

\* the second loop from the k-th entry of the sorted order on: es the list
\* as renamed so far, orig the list the first loop counted, used the tag each
\* entry was renamed with; reading an unbound tag raises UnboundLocalError
\* and leaves the list as it is then
RECURSIVE NameLoop(_, _, _, _, _, _)
NameLoop(es, orig, order, k, tag, used) ==
    IF k > Len(order) THEN [raised |-> FALSE, elist |-> es, used |-> used]
    ELSE LET i == order[k]
             rename(t) ==
                 IF ~t.bound THEN [raised |-> TRUE, elist |-> es, used |-> used]
                 ELSE NameLoop([es EXCEPT ![i].name = Tagged(es[i], t.chars)],
                               orig, order, k + 1, t, [used EXCEPT ![i] = t])
         IN  IF Cardinality(SameName(orig, i)) > 1
             THEN rename(TagOf(orig, i, tag))
             ELSE NameLoop(es, orig, order, k + 1, tag, used)

RECURSIVE VerifyLastOnly(_, _, _, _)
VerifyLastOnly(es, k, seen, printed) ==
    IF k > Len(es) THEN printed
    ELSE IF GetName(es[k]) \in seen
         THEN VerifyLastOnly(es, k + 1, seen, Append(printed, GetName(es[k])))
         ELSE VerifyLastOnly(es, k + 1, {GetName(es[k])}, printed)

\* the last loop from the k-th entry on: the names printed after "BUG!
\* Duplicate names still exist!"
RECURSIVE Verify(_, _, _, _)
Verify(es, k, seen, printed) ==
    IF k > Len(es) THEN printed
    ELSE IF GetName(es[k]) \in seen
         THEN Verify(es, k + 1, seen, Append(printed, GetName(es[k])))
         ELSE Verify(es, k + 1, seen \cup {GetName(es[k])}, printed)

\* _dedup_names(elist)
DedupNames(es) ==
    LET verified(named) ==
            IF named.raised
            THEN [raised |-> TRUE, elist |-> named.elist, used |-> named.used,
                  log |-> <<>>]
            ELSE [raised |-> FALSE, elist |-> named.elist, used |-> named.used,
                  log |-> Verify(named.elist, 1, {}, <<>>)]
    IN  verified(NameLoop(es, es, Sorted(es), 1, Unbound,
                          [i \in 1..Len(es) |-> Unbound]))

\* an export entry: what it is, the name set on it, its modes and its output
\* frequency
EntryOf(kind, name, modes, output) ==
    [kind |-> kind, name |-> name, modes |-> modes, output |-> output]

Entry(name, modes, output) == EntryOf(OpenGD77, name, modes, output)

KX7ABC == <<"K", "X", "7", "A", "B", "C">>
W7AWMountVerno ==
    <<"W", "7", "A", "W", " ", "M", "o", "u", "n", "t", " ", "V", "e", "r", "n", "o">>

\* entries of one call sign on 2 m, 1.25 m, 70 cm, 6 m and 33 cm, analogue
\* and digital; entries of a name as long as the field; and an entry whose
\* name is what a tagged name looks like
EntryPool ==
    {Entry(KX7ABC, <<"FM">>, f) :
        f \in {14662000, 14700000, 43272500, 44272500, 44200000, 22400000,
               5281000, 92750000}}
    \cup {Entry(KX7ABC, <<"DMR">>, f) : f \in {14662000, 44272500}}
    \cup {Entry(W7AWMountVerno, <<"FM">>, f) : f \in {14662000, 44272500}}
    \cup {Entry(KX7ABC \o <<" ", "U">>, <<"FM">>, 44272500)}

\* the lists of one to MaxBatch entries
Batches ==
    UNION {[1..n -> EntryPool] : n \in 1..MaxBatch}

Kinds == {OpenGD77, GD88DRS, CPEditor}

\* the name an entry of a kind has before _dedup_names: the GD-88 modules cut
\* "call location" to NAME_LENGTH when they make it (GD88DRSChannel.name,
\* _channel_name), the OpenGD77Channel cuts it when it is read
MadeName(kind, name) ==
    IF kind = OpenGD77 \/ Len(name) <= GD88_NAME_LENGTH THEN name
    ELSE SubSeq(name, 1, GD88_NAME_LENGTH)

\* entries of each kind: one call sign on 2 m and 70 cm, analogue and
\* digital, and a name longer than the GD-88 field; _supported of
\* wwara_gd88_cpeditor.py lets through outputs on 2 m and 70 cm only, the
\* other two test the input, so that an output on 1.25 m or 33 cm reaches them
KindPool(kind) ==
    {EntryOf(kind, KX7ABC, <<"FM">>, f) :
        f \in {14662000, 14700000, 44272500, 44000000}}
    \cup {EntryOf(kind, KX7ABC, <<"DMR">>, f) : f \in {14662000, 44272500}}
    \cup {EntryOf(kind, MadeName(kind, W7AWMountVerno), <<"FM">>, f) :
             f \in {14662000, 44272500}}
    \cup (IF kind = CPEditor THEN {}
          ELSE {EntryOf(kind, KX7ABC, <<"FM">>, f) : f \in {22400000, 92750000}})

\* the lists of one to MaxBatch entries of one kind
KindBatches ==
    UNION {[1..n -> KindPool(kind)] : n \in 1..MaxBatch, kind \in Kinds}

----------------------------------------------------------------------------
(* channel.py, wwara_gd88drs.py: the mapping protocol *)

\* Channel.name_length
name_length == 256

\* what record[key] is read from: a Channel, or the GD88DRSChannel made of it
BaseChannel == "Channel"

\* a bool as a value
Bool(b) == [kind |-> "bool", val |-> IF b THEN 1 ELSE 0, len |-> 0]

\* Channel.fieldnames
Fieldnames ==
    <<"Number", "Call", "Name", "Output", "Input", "Bandwidth", "FM",
      "Output Tone", "Input Tone", "Output Code", "Input Code", "P25",
      "P25 Phase", "P25 NAC", "D-STAR", "D-STAR Mode", "NXDN", "NXDN RAN",
      "DMR", "DMR CC", "C4FM", "C4FM DSQ", "Location", "Latitude",
      "Longitude", "RX Only">>

\* GD88DRSChannel.fieldnames
FieldnamesGD88DRS ==
    <<"Z-0", "CH mode", "CH Name", "RX Freq", "TX Freq", "Power", "RX Only",
      "Alarm ACK", "Prompt", "PCT", "RX TS", "TX TS", "RX CC", "TX CC",
      "Msg Type", "TX Policy", "RX Group", "Encryption List", "Scan List",
      "Contacts", "EAS", "Relay Monitor", "Relay mode", "Bandwidth",
      "RX QT/DQT", "TX QT/DQT", "APRS">>

FieldnamesOf(cls) == IF cls = BaseChannel THEN Fieldnames ELSE FieldnamesGD88DRS

InSeq(x, s) == \E i \in 1..Len(s) : s[i] = x

\* the class attributes <attribute>_k of Channel
KeyOf ==
    [number |-> "Number", call |-> "Call", name |-> "Name",
     output |-> "Output", input |-> "Input", bandwidth |-> "Bandwidth",
     fm |-> "FM", output_tone |-> "Output Tone", input_tone |-> "Input Tone",
     output_code |-> "Output Code", input_code |-> "Input Code",
     p25 |-> "P25", p25_phase |-> "P25 Phase", p25_nac |-> "P25 NAC",
     dstar |-> "D-STAR", dstar_mode |-> "D-STAR Mode", nxdn |-> "NXDN",
     nxdn_ran |-> "NXDN RAN", dmr |-> "DMR", dmr_cc |-> "DMR CC",
     c4fm |-> "C4FM", c4fm_dsq |-> "C4FM DSQ", location |-> "Location",
     latitude |-> "Latitude", longitude |-> "Longitude",
     rx_only |-> "RX Only"]

\* the attributes Channel.items() yields, in the order of its yield
\* statements: yield self.<attribute>_k, self.<attribute>
ItemAttrs ==
    <<"number", "call", "name", "output", "input", "bandwidth", "fm",
      "output_tone", "input_tone", "output_code", "input_code", "atv", "p25",
      "p25_phase", "p25_nac", "dstar", "dstar_mode", "nxdn", "nxdn_ran",
      "dmr", "dmr_cc", "c4fm", "c4fm_dsq", "location", "latitude",
      "longitude", "rx_only">>

\* str(x) of a call or a location inside an f-string
Formatted(x) == IF x.kind = "none" THEN <<"N", "o", "n", "e">> ELSE x.chars

\* the name getter's first step: self._name, filled in when it is None
CachedName(c) ==
    IF c.name.kind = "none"
    THEN [c EXCEPT !.name =
              Str(RStrip(Formatted(c.call) \o <<" ">>
                         \o (IF TruthyStr(c.location) THEN c.location.chars
                             ELSE <<>>)))]
    ELSE c

\* self._name[: self.name_length].rstrip(" ")
ChannelName(c) ==
    LET made == CachedName(c).name.chars
    IN  Str(RStrip(SubSeq(made, 1, IF Len(made) < name_length THEN Len(made)
                                   ELSE name_length)))

\* self.<attribute> of a Channel
AttrValue(c, attr) ==
    CASE attr = "number" -> Num(c.number)
      [] attr = "call" -> c.call
      [] attr = "name" -> ChannelName(c)
      [] attr = "output" -> Num(c.output)
      [] attr = "input" -> Num(c.input)
      [] attr = "bandwidth" -> Num(c.bandwidth)
      [] attr = "fm" -> Bool(HasMode(c, "FM"))
      [] attr = "output_tone" -> c.output_tone
      [] attr = "input_tone" -> c.input_tone
      [] attr = "output_code" -> c.output_code
      [] attr = "input_code" -> c.input_code
      [] attr = "atv" -> Bool(HasMode(c, "ATV"))
      [] attr = "p25" -> Bool(HasMode(c, "P25"))
      [] attr = "p25_phase" -> c.p25_phase
      [] attr = "p25_nac" -> c.p25_nac
      [] attr = "dstar" -> Bool(HasMode(c, "D-STAR"))
      [] attr = "dstar_mode" -> c.dstar_mode
      [] attr = "nxdn" -> Bool(HasMode(c, "NXDN"))
      [] attr = "nxdn_ran" -> c.nxdn_ran
      [] attr = "dmr" -> Bool(HasMode(c, "DMR"))
      [] attr = "dmr_cc" -> c.dmr_cc
      [] attr = "c4fm" -> Bool(HasMode(c, "C4FM"))
      [] attr = "c4fm_dsq" -> c.c4fm_dsq
      [] attr = "location" -> c.location
      [] attr = "latitude" -> c.latitude
      [] attr = "longitude" -> c.longitude
      [] attr = "rx_only" -> Bool(c.rx_only)

\* Channel.items() run from its i-th yield statement until it has yielded
\* `key` (get's return) or has ended; key = "" runs it to the end. The
\* outcome, the pairs yielded and the channel afterwards: reading a class
\* attribute that does not exist raises AttributeError, and the name getter
\* fills in self._name.
RECURSIVE ItemsFrom(_, _, _, _)
ItemsFrom(c, i, key, pairs) ==
    IF i > Len(ItemAttrs)
    THEN [outcome |-> "end", pairs |-> pairs, channel |-> c]
    ELSE IF ItemAttrs[i] \notin DOMAIN KeyOf
    THEN [outcome |-> "AttributeError", pairs |-> pairs, channel |-> c]
    ELSE LET attr == ItemAttrs[i]
             next == IF attr = "name" THEN CachedName(c) ELSE c
             item == [key |-> KeyOf[attr], value |-> AttrValue(c, attr)]
         IN  IF item.key = key
             THEN [outcome |-> "found", pairs |-> Append(pairs, item),
                   channel |-> next]
             ELSE ItemsFrom(next, i + 1, key, Append(pairs, item))

\* list(channel.items())
Items(c) == ItemsFrom(c, 1, "", <<>>)

\* Channel.get(key): the value of the first pair of items() with that key,
\* or the default None
Get(c, key) ==
    LET got == ItemsFrom(c, 1, key, <<>>)
    IN  [outcome |-> IF got.outcome = "AttributeError" THEN "AttributeError"
                     ELSE "value",
         value |-> IF got.outcome = "found" THEN got.pairs[Len(got.pairs)].value
                   ELSE None,
         channel |-> got.channel]

\* Channel.__getitem__(key)
GetItem(c, key) ==
    IF ~InSeq(key, Fieldnames)
    THEN [outcome |-> "KeyError", value |-> None, channel |-> c]
    ELSE Get(c, key)

\* GD88DRSChannel(channel): the constructor copies the fields, _name is None
GD88DRSChannel(c) == [c EXCEPT !.name = NoneStr, !.number = 0]

\* GD88DRSChannel.name: " ".join((self.call, self.location))[:NAME_LENGTH],
\* a TypeError when one of the two is None
NameGD88DRS(c) ==
    IF c.name.kind # "none" THEN [outcome |-> "value", value |-> c.name]
    ELSE IF c.call.kind = "none" \/ c.location.kind = "none"
    THEN [outcome |-> "TypeError", value |-> None]
    ELSE LET joined == c.call.chars \o <<" ">> \o c.location.chars
         IN  [outcome |-> "value",
              value |-> Str(SubSeq(joined, 1,
                                   IF Len(joined) < GD88_NAME_LENGTH
                                   THEN Len(joined) ELSE GD88_NAME_LENGTH))]

\* GD88DRSChannel.__getitem__(key): the name, the channel type and the
\* receive frequency, KeyError for any other key
GetItemGD88DRS(c, key) ==
    IF key = "CH Name" THEN NameGD88DRS(c)
    ELSE IF key = "CH mode"
    THEN [outcome |-> "value",
          value |-> IF HasMode(c, "DMR")
                    THEN Str(<<"D", "i", "g", "i", "t", "a", "l">>)
                    ELSE Str(<<"A", "n", "a", "l", "o", "g">>)]
    ELSE IF key = "RX Freq"
    THEN [outcome |-> "value",
          value |-> Str(RxFrequency(c.output * (Hz10 \div MHz)))]
    ELSE [outcome |-> "KeyError", value |-> None]

----------------------------------------------------------------------------
(* The arguments channels are constructed from *)

BaseArgs ==
    [call |-> Str(<<"W", "7", "A">>),
     output |-> F(146, 6400),
     input |-> Num(F(146, 400)),
     offset |-> None,
     bandwidth |-> K(25, 0),
     modes |-> <<"FM">>,
     output_tone |-> None,
     input_tone |-> Text(1035, 5),
     output_code |-> None,
     input_code |-> None,
     p25_phase |-> None,
     p25_nac |-> None,
     dstar_mode |-> None,
     nxdn_ran |-> None,
     dmr_cc |-> None,
     c4fm_dsq |-> None,
     location |-> Str(<<"S", "e", "a">>),
     latitude |-> Text(47, 2),
     longitude |-> Text(-122, 4),
     rx_only |-> FALSE]

\* a channel given by output and input, as wwara/database.py constructs it
PairArgs(output, offset, bandwidth) ==
    [BaseArgs EXCEPT !.output = output, !.input = Num(output + offset),
                     !.bandwidth = bandwidth]

\* a channel given by output and offset
OffsetArgs(output, offset, bandwidth) ==
    [BaseArgs EXCEPT !.output = output, !.input = None,
                     !.offset = Num(offset), !.bandwidth = bandwidth]

Offsets == {-F(0, 6000), F(0, 6000), F(0, 0), F(5, 0)}

TwoMeterOutputs ==
    {F(146, 6400), F(146, 6300), F(146, 6375), F(146, 6250), F(147, 0),
     F(146, 400), F(146, 6050)}

RuleArgs ==
    {PairArgs(o, f, b) : o \in TwoMeterOutputs,
                         f \in {-F(0, 6000), F(0, 6000)},
                         b \in {K(12, 50), K(25, 0)}}
    \cup {PairArgs(F(146, 6050), -F(0, 6000), K(6, 25))}
    \cup {PairArgs(o, F(5, 0), b) :
            o \in {F(440, 7250), F(442, 250), F(440, 125)},
            b \in {K(12, 50), K(25, 0)}}
    \cup {PairArgs(o, F(0, 0), K(25, 0)) :
            o \in {F(1248, 0), F(1253, 2500), F(146, 6400), F(1247, 100)}}
    \cup {PairArgs(F(1290, 5000), -F(20, 0), b) : b \in {K(12, 50), K(25, 0)}}
    \cup {OffsetArgs(F(146, 6400), f, K(12, 50)) :
            f \in {-F(0, 6000), F(0, 0)}}

\* rules besides the plan's: a single-frequency rule inside a range rule, and
\* a range no plan rule covers
ExtraRules ==
    {Rule(F(1248, 0), F(1248, 0), F(0, 0), K(0, 0), K(6, 25)),
     Rule(F(1253, 0), F(1254, 0), F(0, 0), K(12, 50), K(12, 50))}

PlanRules(pl) == {pl[i] : i \in 1..Len(pl)}

Rules == PlanRules(REPEATERS) \cup ExtraRules

\* channels around the plan's segments: on and off the grid, both offset
\* signs, input and output swapped, simplex, outside every segment
QAArgs ==
    {PairArgs(o, f, b) :
        o \in {F(146, 6400), F(146, 6300), F(146, 400), F(146, 6250)},
        f \in {-F(0, 6000), F(0, 6000)},
        b \in {K(12, 50), K(25, 0)}}
    \cup {PairArgs(F(440, 7250), F(5, 0), b) : b \in {K(12, 50), K(25, 0)}}
    \cup {PairArgs(o, F(0, 0), K(25, 0)) :
            o \in {F(1248, 0), F(1253, 2500), F(146, 6400)}}

\* channels that differ from the first in one attribute that __eq__ reads, and
\* one that differs from it in every attribute __eq__ does not read
EqArgs ==
    {BaseArgs,
     [BaseArgs EXCEPT !.call = Str(<<" ", "W", "7", "A", " ">>)],
     [BaseArgs EXCEPT !.call = Str(<<"K", "7", "B">>)],
     [BaseArgs EXCEPT !.output = F(146, 6600), !.input = Num(F(146, 400))],
     [BaseArgs EXCEPT !.input = Num(F(147, 2400))],
     [BaseArgs EXCEPT !.input_tone = Text(885, 4)],
     [BaseArgs EXCEPT !.input_code = Text(23, 3)],
     [BaseArgs EXCEPT !.bandwidth = K(12, 50),
                      !.modes = <<"FM", "D-STAR">>, !.dstar_mode = Text(1, 2),
                      !.location = NoneStr, !.latitude = Text(0, 0),
                      !.longitude = Text(0, 0), !.rx_only = TRUE,
                      !.output_tone = Text(1035, 5),
                      !.output_code = Text(23, 3)],
     [BaseArgs EXCEPT !.dmr_cc = Num(1)],
     [BaseArgs EXCEPT !.c4fm_dsq = Text(5, 2)],
     [BaseArgs EXCEPT !.p25_nac = Text(293, 3)],
     [BaseArgs EXCEPT !.nxdn_ran = Num(1)]}

\* channels whose output, or input, lies in the range of several rules
OrderArgs ==
    {PairArgs(F(146, 6400), -F(0, 6000), K(25, 0)),
     PairArgs(F(146, 6400), F(0, 6000), K(25, 0)),
     PairArgs(F(146, 6250), F(0, 6000), K(12, 50)),
     PairArgs(F(146, 6250), -F(0, 6000), K(25, 0)),
     PairArgs(F(146, 400), F(0, 6000), K(25, 0)),
     PairArgs(F(442, 250), F(5, 0), K(25, 0)),
     PairArgs(F(442, 250), F(5, 0), K(12, 50)),
     PairArgs(F(1290, 5000), -F(20, 0), K(25, 0)),
     PairArgs(F(1248, 0), F(0, 0), K(25, 0))}

\* the mode lists wwara/database.py builds, none, one or several modes
ModeLists ==
    {<<>>, <<"FM">>, <<"DMR">>, <<"C4FM">>, <<"P25">>, <<"NXDN">>,
     <<"FM", "DMR">>, <<"FM", "C4FM">>, <<"P25", "NXDN">>,
     <<"FM", "DMR", "C4FM", "P25", "NXDN">>}

\* the values of a row's mode attributes: CTCSS_IN, DCS_CDCSS, DMR_COLOR_CODE,
\* FUSION_DSQ, P25_NAC, and an NXDN RAN
Attrs(tone, code, cc, dsq, nac, ran) ==
    [input_tone |-> tone, input_code |-> code, dmr_cc |-> cc, c4fm_dsq |-> dsq,
     p25_nac |-> nac, nxdn_ran |-> ran]

Tone1035 == Text(1035, 5)
Code023 == Text(23, 3)

AttrSets ==
    {Attrs(Tone1035, None, None, None, None, None),
     Attrs(None, None, None, None, None, None),
     Attrs(Tone1035, Code023, None, None, None, None),
     Attrs(None, Code023, None, None, None, None),
     Attrs(Text(0, 3), None, None, None, None, None),
     Attrs(Tone1035, None, Text(1, 1), Text(50, 2), Text(293, 3), Text(1, 1)),
     Attrs(None, None, Text(1, 1), Text(50, 2), Text(293, 3), Text(1, 1)),
     Attrs(Tone1035, None, None, Text(0, 2), None, None),
     Attrs(Tone1035, None, None, Text(1, 2), None, None),
     Attrs(Tone1035, None, None, Text(99, 2), None, None),
     Attrs(Tone1035, None, None, Text(100, 3), None, None),
     Attrs(Tone1035, None, None, Text(126, 3), None, None),
     Attrs(Tone1035, None, None, Text(127, 3), None, None),
     Attrs(Tone1035, None, None, Text(-1, 2), None, None),
     Attrs(Tone1035, None, Num(0), None, None, None),
     Attrs(Tone1035, None, Num(1), None, None, None),
     Attrs(Tone1035, None, Text(1, 1), None, None, None),
     Attrs(Tone1035, None, None, None, Text(293, 3), None),
     Attrs(Tone1035, None, None, None, None, Text(1, 1))}

WithModes(a, modes, x) ==
    [a EXCEPT !.modes = modes, !.input_tone = x.input_tone,
              !.input_code = x.input_code, !.dmr_cc = x.dmr_cc,
              !.c4fm_dsq = x.c4fm_dsq, !.p25_nac = x.p25_nac,
              !.nxdn_ran = x.nxdn_ran]

\* rows off the plan or outside the region: input and output exchanged, off
\* the grid, the wrong offset, and a latitude south of the region
OffPlanArgs ==
    {PairArgs(F(146, 400), F(0, 6000), K(25, 0)),
     PairArgs(F(146, 6300), -F(0, 6000), K(25, 0)),
     PairArgs(F(146, 6400), F(0, 0), K(25, 0)),
     [BaseArgs EXCEPT !.latitude = Text(40, 2)],
     [PairArgs(F(146, 6400), -F(0, 5000), K(25, 0)) EXCEPT !.latitude = Text(40, 2)]}

\* channels of every mode list with every set of attributes on a conforming
\* pair, and the extremes of both off the plan
ModeArgs ==
    {WithModes(BaseArgs, m, x) : m \in ModeLists, x \in AttrSets}
    \cup {WithModes(a, m, x) :
            a \in OffPlanArgs,
            m \in {<<>>, <<"FM", "DMR", "C4FM", "P25", "NXDN">>},
            x \in {Attrs(None, None, None, None, None, None),
                   Attrs(Tone1035, Code023, None, Text(127, 3), None, None),
                   Attrs(Tone1035, None, Text(1, 1), Text(50, 2), Text(293, 3),
                         Text(1, 1))}}

\* the rows that follow the first: a multimode row and a bare one
ModeAgain ==
    {WithModes(BaseArgs, <<"FM", "DMR">>,
               Attrs(Tone1035, None, Text(1, 1), None, None, None)),
     WithModes(BaseArgs, <<>>, Attrs(None, None, None, None, None, None))}

\* a row as wwara/database.py hands it over: empty columns are empty texts
RowArgs(call, output, input, modes) ==
    [BaseArgs EXCEPT !.call = Str(call), !.output = output, !.input = Num(input),
                     !.modes = modes, !.output_tone = Text(0, 0),
                     !.input_tone = Text(0, 0), !.output_code = Text(0, 0),
                     !.input_code = Text(0, 0), !.dmr_cc = Text(0, 0),
                     !.c4fm_dsq = Text(0, 0), !.p25_nac = Text(0, 0)]

\* rows of the delta report: the three exceptions as the comments of
\* EXCEPTIONS describe them; rows that differ from an exception in the tone,
\* the FUSION_DSQ column left at its default "00", the call or the
\* frequency; and rows of another call on and off the plan
DeltaArgs ==
    {RowArgs(AA7MI, F(440, 7250), F(445, 7250), <<"FM">>),
     RowArgs(WA7LZO, F(442, 9000), F(447, 9000), <<"P25">>),
     RowArgs(WW7ATS, F(1253, 2500), F(434, 0), <<"ATV">>),
     [RowArgs(AA7MI, F(440, 7250), F(445, 7250), <<"FM">>)
         EXCEPT !.input_tone = Tone1035],
     [RowArgs(AA7MI, F(440, 7250), F(445, 7250), <<"FM">>)
         EXCEPT !.c4fm_dsq = Text(0, 2)],
     [RowArgs(AA7MI, F(440, 7250), F(445, 7250), <<"FM">>)
         EXCEPT !.bandwidth = K(12, 50), !.input_tone = Tone1035],
     RowArgs(AA7MI, F(441, 7250), F(446, 7250), <<"FM">>),
     RowArgs(<<"K", "7", "B">>, F(440, 7250), F(445, 7250), <<"FM">>),
     [RowArgs(WA7LZO, F(442, 9000), F(447, 9000), <<"P25">>)
         EXCEPT !.p25_nac = Text(293, 3)],
     BaseArgs,
     PairArgs(F(146, 6300), -F(0, 6000), K(25, 0)),
     PairArgs(F(146, 400), F(0, 6000), K(25, 0))}

\* rows with input and output exchanged: one whose own output no rule's range
\* holds, and one whose own output lies in the range of the +0.6 MHz rule;
\* rows that match neither way, the input missing the range's offset or grid;
\* a row no rule's range holds either way; a row that matches as it is; and
\* exchanged rows that fail another check
ReversedArgs ==
    {PairArgs(F(146, 400), F(0, 6000), K(25, 0)),
     PairArgs(F(147, 2250), -F(0, 6000), K(12, 50)),
     PairArgs(F(147, 2250), -F(0, 6000), K(25, 0)),
     PairArgs(F(147, 2400), -F(0, 6000), K(25, 0)),
     PairArgs(F(146, 400), F(0, 6200), K(25, 0)),
     PairArgs(F(146, 400), F(0, 5900), K(25, 0)),
     PairArgs(F(148, 5000), F(0, 6000), K(25, 0)),
     BaseArgs,
     [PairArgs(F(146, 400), F(0, 6000), K(25, 0)) EXCEPT !.modes = <<>>],
     [PairArgs(F(147, 2250), -F(0, 6000), K(12, 50)) EXCEPT !.input_tone = None],
     [PairArgs(F(146, 400), F(0, 6000), K(25, 0)) EXCEPT !.latitude = Text(40, 2)]}

\* rows of the segment 147.0000 - 147.3875 with the input 0.6 MHz above the
\* output: every output of the 12.5 kHz grid at 12.5 kHz bandwidth, the first
\* of them at 6.25 kHz, and the first outputs of the 20 kHz grid at 20 kHz
SegmentArgs ==
    {PairArgs(F(147, 0) + k * F(0, 125), F(0, 6000), K(12, 50)) : k \in 0..31}
    \cup {PairArgs(F(147, 0) + k * F(0, 125), F(0, 6000), K(6, 25)) : k \in 0..3}
    \cup {PairArgs(F(147, 0) + k * F(0, 200), F(0, 6000), K(20, 0)) : k \in 0..3}

\* the plan's rules in other orders: reversed, and rotated by every amount
Reverse(pl) == [i \in 1..Len(pl) |-> pl[Len(pl) + 1 - i]]

Rotate(pl, k) == [i \in 1..Len(pl) |-> pl[((i - 1 + k) % Len(pl)) + 1]]

PlanOrders ==
    {Rotate(REPEATERS, k) : k \in 0..(Len(REPEATERS) - 1)}
    \cup {Reverse(REPEATERS)}

----------------------------------------------------------------------------
(* The state machine *)

NoRule == Rule(0, 0, 0, 0, 0)
NoProbe == [rule |-> NoRule, result |-> FALSE, fresh |-> FALSE]
NoReport == [raised |-> FALSE, error |-> FALSE, comments |-> <<>>]
NoRead == [cls |-> "", key |-> "", outcome |-> "", value |-> None, keys |-> <<>>]

InitWith(args, plans) ==
    /\ given \in args
    /\ channel = NewChannel(given)
    /\ rules = <<>>
    /\ inverse = <<>>
    /\ depth = 0
    /\ SEEN = {}
    /\ stored = FALSE
    /\ report = NoReport
    /\ calls = <<>>
    /\ plan \in plans
    /\ op = "new"
    /\ sets = 0
    /\ probe = NoProbe
    /\ elist = <<>>
    /\ before = <<>>
    /\ log = <<>>
    /\ runs = 0
    /\ applied = <<>>
    /\ message = <<>>
    /\ read = NoRead

\* channel = Channel(...) for the next row, once the one before is tested:
\* a new object with a dict of its own
New(a) ==
    /\ op \in {"test", "delta"}
    /\ Len(calls) < MaxCalls
    /\ given' = a
    /\ channel' = NewChannel(a)
    /\ rules' = <<>>
    /\ inverse' = <<>>
    /\ depth' = 0
    /\ report' = NoReport
    /\ stored' = FALSE
    /\ op' = "new"
    /\ probe' = NoProbe
    /\ UNCHANGED <<SEEN, calls, plan, sets>>
    /\ UNCHANGED namerVars
    /\ UNCHANGED outVars

\* channel in r
ContainsStep(r) ==
    LET got == Contains(channel, rules, r)
    IN  /\ rules' = got.rules
        /\ probe' = [rule |-> r, result |-> got.result,
                     fresh |-> r \notin DictKeys(rules)]
        /\ op' = "contains"
        /\ UNCHANGED <<channel, given, inverse, depth, SEEN, stored, report, calls,
                       plan, sets>>
        /\ UNCHANGED namerVars
        /\ UNCHANGED outVars

\* match(channel)
MatchStep ==
    LET got == Match(channel, rules, plan)
    IN  /\ rules' = got.rules
        /\ probe' = [rule |-> NoRule, result |-> got.result,
                     fresh |-> rules = <<>>]
        /\ op' = "match"
        /\ UNCHANGED <<channel, given, inverse, depth, SEEN, stored, report, calls,
                       plan, sets>>
        /\ UNCHANGED namerVars
        /\ UNCHANGED outVars

\* inverse = ~channel, and inverse = ~inverse after that
InvertStep ==
    /\ depth < MaxInvert
    /\ IF depth = 0
       THEN /\ channel' = Invert(channel).self
            /\ inverse' = <<Invert(channel).inverse>>
       ELSE /\ channel' = channel
            /\ inverse' = <<Invert(inverse[1]).inverse>>
    /\ depth' = depth + 1
    /\ op' = "invert"
    /\ UNCHANGED <<given, rules, SEEN, stored, report, calls, plan, sets, probe>>
    /\ UNCHANGED namerVars
    /\ UNCHANGED outVars

\* test(channel)
TestStep ==
    LET got == Test(channel, rules, SEEN, plan)
    IN  /\ Len(calls) < MaxCalls
        /\ channel' = got.channel
        /\ rules' = got.rules
        /\ SEEN' = got.seen
        /\ stored' = (stored \/ got.seen # SEEN)
        /\ report' = [raised |-> got.raised, error |-> got.error,
                      comments |-> got.comments]
        /\ calls' = Append(calls, channel)
        /\ op' = "test"
        /\ UNCHANGED <<given, inverse, depth, plan, sets, probe>>
        /\ UNCHANGED namerVars
        /\ UNCHANGED outVars

\* lambda_handler's loop, one channel
DeltaStep ==
    \E got \in {Delta(channel, rules, SEEN, plan)} :
        /\ Len(calls) < MaxCalls
        /\ channel' = got.test.channel
        /\ rules' = got.test.rules
        /\ SEEN' = got.test.seen
        /\ stored' = (stored \/ got.test.seen # SEEN)
        /\ report' = [raised |-> got.test.raised, error |-> got.test.error,
                      comments |-> got.test.comments]
        /\ message' = got.message
        /\ calls' = Append(calls, channel)
        /\ op' = IF got.test.raised THEN "typeerror" ELSE "delta"
        /\ UNCHANGED <<given, inverse, depth, plan, sets, probe, read>>
        /\ UNCHANGED namerVars

\* channel[key] = value: Channel.__setitem__ sets the name or the number and
\* raises KeyError for any other key; SEEN holds the object, so a member
\* changes with it
SetItem(c, key, value) ==
    IF key = "Name" THEN [raised |-> FALSE, channel |-> [c EXCEPT !.name = value]]
    ELSE IF key = "Number" THEN [raised |-> FALSE, channel |-> [c EXCEPT !.number = value]]
    ELSE [raised |-> TRUE, channel |-> c]

SetItemStep(key, value) ==
    LET got == SetItem(channel, key, value)
    IN  /\ sets < MaxSets
        /\ sets' = sets + 1
        /\ channel' = got.channel
        /\ SEEN' = IF stored
                   THEN (SEEN \ {channel}) \cup {got.channel}
                   ELSE SEEN
        /\ op' = IF got.raised THEN "keyerror" ELSE "setitem"
        /\ UNCHANGED <<given, rules, inverse, depth, stored, report, calls, plan,
                       probe>>
        /\ UNCHANGED namerVars
        /\ UNCHANGED outVars

\* value = channel[key]
GetItemStep(key) ==
    \E got \in {GetItem(channel, key)} :
        /\ channel' = got.channel
        /\ SEEN' = IF stored
                   THEN (SEEN \ {channel}) \cup {got.channel}
                   ELSE SEEN
        /\ read' = [cls |-> BaseChannel, key |-> key, outcome |-> got.outcome,
                    value |-> got.value, keys |-> <<>>]
        /\ op' = "getitem"
        /\ UNCHANGED <<given, rules, inverse, depth, stored, report, calls, plan,
                       sets, probe, message>>
        /\ UNCHANGED namerVars

\* [k for k, v in channel.items()]
ItemsStep ==
    \E got \in {Items(channel)} :
        /\ channel' = got.channel
        /\ SEEN' = IF stored
                   THEN (SEEN \ {channel}) \cup {got.channel}
                   ELSE SEEN
        /\ read' = [cls |-> BaseChannel, key |-> "",
                    outcome |-> IF got.outcome = "end" THEN "items"
                                ELSE got.outcome,
                    value |-> None,
                    keys |-> [i \in 1..Len(got.pairs) |-> got.pairs[i].key]]
        /\ op' = "items"
        /\ UNCHANGED <<given, rules, inverse, depth, stored, report, calls, plan,
                       sets, probe, message>>
        /\ UNCHANGED namerVars

\* value = GD88DRSChannel(channel)[key]
GetItemGD88DRSStep(key) ==
    \E got \in {GetItemGD88DRS(GD88DRSChannel(channel), key)} :
        /\ read' = [cls |-> GD88DRS, key |-> key, outcome |-> got.outcome,
                    value |-> got.value, keys |-> <<>>]
        /\ op' = "getitem"
        /\ UNCHANGED <<given, rules, inverse, depth, stored, report, calls, plan,
                       sets, probe, message>>
        /\ UNCHANGED <<channel, SEEN>>
        /\ UNCHANGED namerVars

InitRule == InitWith(RuleArgs, {REPEATERS})

NextRule ==
    \/ \E r \in Rules : ContainsStep(r)
    \/ MatchStep

SpecRule == InitRule /\ [][NextRule]_vars

InitInvert == InitWith(RuleArgs \cup QAArgs, {REPEATERS})

NextInvert == InvertStep

SpecInvert == InitInvert /\ [][NextInvert]_vars

Init == InitWith(QAArgs, {REPEATERS})

Next ==
    \/ \E a \in QAArgs : New(a)
    \/ TestStep

Spec == Init /\ [][Next]_vars

InitOrder == InitWith(OrderArgs, PlanOrders)

NextOrder ==
    \/ \E a \in OrderArgs : New(a)
    \/ TestStep

SpecOrder == InitOrder /\ [][NextOrder]_vars

InitEq == InitWith(EqArgs, {REPEATERS})

NextEq ==
    \/ \E a \in EqArgs : New(a)
    \/ TestStep
    \/ SetItemStep("Name", Str(<<"R", "p", "t">>))
    \/ SetItemStep("Number", 7)

SpecEq == InitEq /\ [][NextEq]_vars

\* keys that are read: the fieldnames of the two classes and two that are in
\* neither
ReadKeys ==
    {Fieldnames[i] : i \in 1..Len(Fieldnames)}
    \cup {FieldnamesGD88DRS[i] : i \in 1..Len(FieldnamesGD88DRS)}
    \cup {"ATV", "Comment"}

\* a channel read and written as a mapping
InitItems == InitWith(EqArgs, {REPEATERS})

NextItems ==
    \/ \E key \in ReadKeys : GetItemStep(key)
    \/ \E key \in ReadKeys : GetItemGD88DRSStep(key)
    \/ ItemsStep
    \/ SetItemStep("Name", Str(<<"R", "p", "t">>))
    \/ SetItemStep("Number", 7)
    \/ SetItemStep("Call", Str(<<"R", "p", "t">>))

SpecItems == InitItems /\ [][NextItems]_vars

\* rows with input and output exchanged, one after the other
InitReversed == InitWith(ReversedArgs, {REPEATERS})

NextReversed ==
    \/ \E a \in ReversedArgs : New(a)
    \/ TestStep

SpecReversed == InitReversed /\ [][NextReversed]_vars

\* rows of the 147 MHz segment, one after the other
InitSegment == InitWith(SegmentArgs, {REPEATERS})

NextSegment ==
    \/ \E a \in SegmentArgs : New(a)
    \/ TestStep

SpecSegment == InitSegment /\ [][NextSegment]_vars

\* the channels of a delta report, one after the other
InitDelta == InitWith(DeltaArgs, {REPEATERS})

NextDelta ==
    \/ \E a \in DeltaArgs : New(a)
    \/ DeltaStep

SpecDelta == InitDelta /\ [][NextDelta]_vars

\* rows of every mode list; the next row is the same row again or another
InitModes == InitWith(ModeArgs, {REPEATERS})

NextModes ==
    \/ \E a \in {given} \cup ModeAgain : New(a)
    \/ TestStep

SpecModes == InitModes /\ [][NextModes]_vars

\* _dedup_names(elist), once more on its own result at most MaxRuns times
DedupStep ==
    \E got \in {DedupNames(elist)} :
        /\ op \in {"batch", "dedup"}
        /\ runs < MaxRuns
        /\ before' = elist
        /\ elist' = got.elist
        /\ log' = got.log
        /\ applied' = got.used
        /\ runs' = runs + 1
        /\ op' = IF got.raised THEN "nameerror" ELSE "dedup"
        /\ UNCHANGED channelVars
        /\ UNCHANGED outVars

InitNamer ==
    /\ given = BaseArgs
    /\ channel = NewChannel(given)
    /\ rules = <<>>
    /\ inverse = <<>>
    /\ depth = 0
    /\ SEEN = {}
    /\ stored = FALSE
    /\ report = NoReport
    /\ calls = <<>>
    /\ plan = REPEATERS
    /\ sets = 0
    /\ probe = NoProbe
    /\ op = "batch"
    /\ elist \in Batches
    /\ before = <<>>
    /\ log = <<>>
    /\ runs = 0
    /\ applied = <<>>
    /\ message = <<>>
    /\ read = NoRead

NextNamer == DedupStep

SpecNamer == InitNamer /\ [][NextNamer]_vars

\* the three exporters, each on a list of its own entries
InitFormats ==
    /\ given = BaseArgs
    /\ channel = NewChannel(given)
    /\ rules = <<>>
    /\ inverse = <<>>
    /\ depth = 0
    /\ SEEN = {}
    /\ stored = FALSE
    /\ report = NoReport
    /\ calls = <<>>
    /\ plan = REPEATERS
    /\ sets = 0
    /\ probe = NoProbe
    /\ op = "batch"
    /\ elist \in KindBatches
    /\ before = <<>>
    /\ log = <<>>
    /\ runs = 0
    /\ applied = <<>>
    /\ message = <<>>
    /\ read = NoRead

NextFormats == DedupStep

SpecFormats == InitFormats /\ [][NextFormats]_vars

----------------------------------------------------------------------------
(* Properties *)

\* the four conditions of a full match, spelt out
RangeHolds(c, r) == r.low <= c.output /\ c.output <= r.high
OffsetHolds(c, r) == c.input - c.output = r.offset
SpacingHolds(c, r) ==
    LET eff == IF r.spacing = 0 THEN MHz ELSE (r.spacing * MHz) \div (1000 * KHz)
    IN  (c.output - r.low) % eff = 0
BandwidthHolds(c, r) == c.bandwidth <= r.bandwidth
FullMatch(c, r) ==
    /\ RangeHolds(c, r)
    /\ OffsetHolds(c, r)
    /\ SpacingHolds(c, r)
    /\ BandwidthHolds(c, r)

\* C1: the containment test `c in r` is true if and only if the output lies in
\* [low, high], the offset equals the rule's, the output is aligned to the
\* effective spacing (spacing/1000, or 1 when the spacing is 0) counted from
\* low, and the bandwidth is at most the rule's.
C1_ContainsIffAllFour ==
    op = "contains" => (probe.result <=> FullMatch(channel, probe.rule))

\* a single-frequency rule (spacing 0) was tested and matched
C1_Witness ==
    /\ op = "contains"
    /\ probe.result
    /\ probe.rule.spacing = 0

\* the longest prefix of (offset, spacing, bandwidth) whose checks succeed
CheckedPrefix(c, r) ==
    IF ~OffsetHolds(c, r) THEN {}
    ELSE IF ~SpacingHolds(c, r) THEN {"offset"}
    ELSE IF ~BandwidthHolds(c, r) THEN {"offset", "spacing"}
    ELSE {"offset", "spacing", "bandwidth"}

\* C2: after `c in r` on a channel without an earlier record for r, the dict
\* has no entry for r when r's range does not hold the output, and otherwise
\* its entry for r is the longest prefix of (offset, spacing, bandwidth) whose
\* checks succeed, one of {}, {offset}, {offset, spacing} and all three.
C2_RecordIsCheckedPrefix ==
    (op = "contains" /\ probe.fresh) =>
        IF RangeHolds(channel, probe.rule)
        THEN /\ probe.rule \in DictKeys(rules)
             /\ DictValue(rules, probe.rule) = CheckedPrefix(channel, probe.rule)
             /\ DictValue(rules, probe.rule) \in
                    {{}, {"offset"}, {"offset", "spacing"},
                     {"offset", "spacing", "bandwidth"}}
        ELSE probe.rule \notin DictKeys(rules)

\* the offset matched and the spacing did not: the record is {offset}
C2_Witness ==
    /\ op = "contains"
    /\ probe.fresh
    /\ probe.rule \in DictKeys(rules)
    /\ DictValue(rules, probe.rule) = {"offset"}
    /\ ~SpacingHolds(channel, probe.rule)

\* C3: match(channel) is true if and only if some rule of the plan matches the
\* channel in full, and afterwards the channel holds a record for every rule
\* of the plan whose range holds its output, the rules listed after the first
\* full match included.
C3_MatchIffSomeRule ==
    op = "match" =>
        /\ probe.result <=> \E r \in PlanRules(plan) : FullMatch(channel, r)
        /\ \A r \in PlanRules(plan) :
              RangeHolds(channel, r) =>
                  /\ r \in DictKeys(rules)
                  /\ DictValue(rules, r) = CheckedPrefix(channel, r)

\* a rule listed after a fully matching one holds the output, fails, and has
\* its record
C3_Witness ==
    /\ op = "match"
    /\ probe.result
    /\ \E i, j \in 1..Len(plan) :
          /\ i < j
          /\ FullMatch(channel, plan[i])
          /\ RangeHolds(channel, plan[j])
          /\ ~FullMatch(channel, plan[j])
          /\ plan[j] \in DictKeys(rules)

\* C5: the inverse of c has c's input as output and c's output as input, so
\* its offset is the negation of c's; the inverse of the inverse equals c and
\* has c's output and input; inverting leaves c's own output and input alone.
C5_InvertSwaps ==
    /\ [](depth > 0 =>
            IF depth % 2 = 1
            THEN /\ inverse[1].output = channel.input
                 /\ inverse[1].input = channel.output
                 /\ ChannelOffset(inverse[1]) = -ChannelOffset(channel)
            ELSE /\ ChannelEq(inverse[1], channel)
                 /\ inverse[1].output = channel.output
                 /\ inverse[1].input = channel.input)
    /\ [][op' = "invert" =>
            /\ channel'.output = channel.output
            /\ channel'.input = channel.input]_vars

\* a channel with different output and input was inverted twice
C5_Witness ==
    /\ depth = 2
    /\ channel.input # channel.output

\* some rule of the list pl matches c in full
PlanMatches(c, pl) == \E r \in PlanRules(pl) : FullMatch(c, r)

\* c with output and input exchanged
Swapped(c) == [c EXCEPT !.output = c.input, !.input = c.output]

Has(comments, t) == \E i \in 1..Len(comments) : comments[i] = t

PlanTags == {"WRONG OFFSET", "MISALIGNED", "TOO WIDE"}

IsPlanTag(t) == t \in PlanTags

\* the plan-failure tags of a report, in the order they appear
PlanTagsOf(comments) == SelectSeq(comments, IsPlanTag)

\* C4: for every order of the plan's rules, match(channel) and the pair
\* test(channel) returns are the same as for the order of the plan as written.
C4_OrderOfRulesIsIrrelevant ==
    [][op' = "test" =>
         LET written == Test(channel, rules, SEEN, REPEATERS)
         IN  /\ report'.error = written.error
             /\ report'.comments = written.comments
             /\ Match(channel, rules, plan).result
                    = Match(channel, rules, REPEATERS).result]_vars

\* a channel failed the plan, tested against the rules in another order, with
\* records of different sizes among the rules touched
C4_Witness ==
    /\ op = "test"
    /\ plan # REPEATERS
    /\ report.error
    /\ Len(PlanTagsOf(report.comments)) > 0
    /\ \E i, j \in 1..Len(rules) :
          Cardinality(rules[i].match) < Cardinality(rules[j].match)

\* C6: test() appends REVERSED only for a channel that does not match the plan
\* directly and whose inverse does; a channel that matches the plan directly, a
\* simplex channel included, is not tagged REVERSED.
C6_ReversedOnlyWhenNotDirect ==
    (op = "test" /\ Has(report.comments, "REVERSED")) =>
        /\ ~PlanMatches(channel, plan)
        /\ PlanMatches(Swapped(channel), plan)

\* the missing criteria of a record, as tags in the order of the checks
MissingTags(match) ==
    (IF "offset" \notin match THEN <<"WRONG OFFSET">> ELSE <<>>)
    \o (IF "spacing" \notin match THEN <<"MISALIGNED">> ELSE <<>>)
    \o (IF "bandwidth" \notin match THEN <<"TOO WIDE">> ELSE <<>>)

\* the records of the rules touched that no other record exceeds in size
LargestRecords(d) ==
    {d[i].match : i \in {k \in 1..Len(d) :
        \A j \in 1..Len(d) : Cardinality(d[j].match) <= Cardinality(d[k].match)}}

\* C7: for a channel that matches the plan neither directly nor inverted,
\* test() sets the error flag and appends exactly the tags of the criteria
\* missing from the largest record among the rules touched, in the order WRONG
\* OFFSET, MISALIGNED, TOO WIDE (so WRONG OFFSET comes with MISALIGNED and TOO
\* WIDE, and MISALIGNED with TOO WIDE); for a channel that matches the plan
\* directly none of the three is appended.
C7_PlanFailureTags ==
    op = "test" =>
        LET tags == PlanTagsOf(report.comments)
        IN  /\ (~PlanMatches(channel, plan) /\ ~PlanMatches(Swapped(channel), plan)) =>
                  /\ report.error
                  /\ \A m \in LargestRecords(rules) : tags = MissingTags(m)
                  /\ rules = <<>> => tags = <<>>
            /\ Has(tags, "WRONG OFFSET") => Has(tags, "MISALIGNED")
            /\ Has(tags, "MISALIGNED") => Has(tags, "TOO WIDE")
            /\ PlanMatches(channel, plan) => tags = <<>>

\* a channel off the grid of the rule its offset matches: MISALIGNED, TOO WIDE
C7_Witness ==
    /\ op = "test"
    /\ report.error
    /\ ~PlanMatches(channel, plan)
    /\ ~PlanMatches(Swapped(channel), plan)
    /\ PlanTagsOf(report.comments) = <<"MISALIGNED", "TOO WIDE">>
    /\ Len(rules) > 1

\* C8 as stated: test(channel) changes nothing but SEEN; the attributes of the
\* channel, its dict of rule records included, are afterwards what they were.
C8_TestChangesOnlySeen ==
    [][op' = "test" =>
         /\ channel' = channel
         /\ rules' = rules
         /\ inverse' = inverse
         /\ plan' = plan]_vars

\* C8, amended: test(channel) changes nothing but SEEN and the channel's dict
\* of rule records; every other attribute of the channel is afterwards what
\* it was.
C8_TestChangesSeenAndRecords ==
    [][op' = "test" =>
         /\ channel' = channel
         /\ inverse' = inverse
         /\ plan' = plan]_vars

\* a test left records in the dict of a channel that had none
C8_Witness ==
    /\ op = "test"
    /\ Len(calls) = 1
    /\ Len(rules) > 0
    /\ channel.input # channel.output

\* the attributes Channel equality is said to go by
SameIdentity(a, b) ==
    /\ a.call = b.call
    /\ a.output = b.output
    /\ a.input = b.input
    /\ a.input_tone = b.input_tone
    /\ a.input_code = b.input_code
    /\ a.p25_nac = b.p25_nac
    /\ a.nxdn_ran = b.nxdn_ran
    /\ a.dmr_cc = b.dmr_cc
    /\ a.c4fm_dsq = b.c4fm_dsq

\* C9: in a session, the comments of a call of test() include DUPLICATE if and
\* only if a channel equal to the argument was passed to an earlier call; SEEN
\* only grows, holds every channel tested so far, and DUPLICATE alone does not
\* set the error flag.
C9_DuplicateIffSeenBefore ==
    /\ [](op = "test" =>
            /\ Has(report.comments, "DUPLICATE")
                   <=> \E i \in 1..(Len(calls) - 1) :
                           SameIdentity(calls[i], calls[Len(calls)])
            /\ \A i \in 1..Len(calls) :
                   \E s \in SEEN : SameIdentity(s, calls[i]))
    /\ [][op' \in {"test", "new"} => SEEN \subseteq SEEN']_vars
    /\ [][Cardinality(SEEN) <= Cardinality(SEEN')]_vars
    /\ [][op' = "test" =>
            report'.error = Test(channel, rules, {}, plan).error]_vars

\* a conforming channel was reported DUPLICATE of another object, without error
C9_Witness ==
    /\ op = "test"
    /\ Has(report.comments, "DUPLICATE")
    /\ ~report.error
    /\ Len(calls) = 2
    /\ calls[1] # calls[2]

\* C10: two channels are equal exactly when they agree on call sign, output,
\* input, input tone, input code, P25 NAC, NXDN RAN, DMR colour code and C4FM
\* DSQ, and equal channels have equal hashes; no other attribute decides it.
C10_EqualityIsCoarse ==
    \A s \in SEEN \cup {calls[i] : i \in 1..Len(calls)} :
        /\ ChannelEq(s, channel) <=> SameIdentity(s, channel)
        /\ ChannelEq(channel, s) <=> SameIdentity(s, channel)
        /\ ChannelEq(s, channel) => ChannelHash(s) = ChannelHash(channel)

\* a channel equal to a member of SEEN that differs from it in bandwidth, mode
\* set, location, coordinates, output tone and code, name and number
C10_Witness ==
    \E s \in SEEN :
        /\ ChannelEq(s, channel)
        /\ s.bandwidth # channel.bandwidth
        /\ s.modes # channel.modes
        /\ s.location # channel.location
        /\ s.latitude # channel.latitude
        /\ s.output_tone # channel.output_tone
        /\ s.output_code # channel.output_code
        /\ (s.name # channel.name \/ s.number # channel.number)

\* an input tone is present when it is a tone above 0 Hz, an input code when
\* it is not None
TonePresent(c) == c.input_tone.kind # "none" /\ c.input_tone.val # 0
CodePresent(c) == c.input_code.kind # "none"

Declares(c, m) == m \in {c.modes[i] : i \in 1..Len(c.modes)}

ToneCodeTags == {"NO TONE/CODE", "AMBIGUOUS TONE/CODE", "EXTRA TONE/CODE"}

IsToneCodeTag(t) == t \in ToneCodeTags

\* C11: with FM declared the report has NO TONE/CODE exactly when the input
\* tone and the input code are both absent and AMBIGUOUS TONE/CODE exactly when
\* both are present; without FM it has EXTRA TONE/CODE exactly when either is
\* present; each of the three sets the error flag, and a report has at most
\* one of them.
C11_ToneCodeTags ==
    op = "test" =>
        LET fm == Declares(channel, "FM")
            tone == TonePresent(channel)
            code == CodePresent(channel)
        IN  /\ Has(report.comments, "NO TONE/CODE") <=> (fm /\ ~tone /\ ~code)
            /\ Has(report.comments, "AMBIGUOUS TONE/CODE") <=> (fm /\ tone /\ code)
            /\ Has(report.comments, "EXTRA TONE/CODE") <=> (~fm /\ (tone \/ code))
            /\ (\E t \in ToneCodeTags : Has(report.comments, t)) => report.error
            /\ Len(SelectSeq(report.comments, IsToneCodeTag)) <= 1

\* an FM channel with both a tone and a code was reported ambiguous, on a
\* pair that conforms to the plan
C11_Witness ==
    /\ op = "test"
    /\ Declares(channel, "FM")
    /\ TonePresent(channel) /\ CodePresent(channel)
    /\ Has(report.comments, "AMBIGUOUS TONE/CODE")
    /\ PlanMatches(channel, plan)

\* C12: a channel constructed with DMR declared and no colour code gets NO CC
\* and the error flag; a channel without DMR whose colour code is present gets
\* EXTRA DMR CC and the error flag.
C12_ColourCodeTags ==
    op = "test" =>
        /\ (Declares(channel, "DMR") /\ given.dmr_cc.kind = "none") =>
               (Has(report.comments, "NO CC") /\ report.error)
        /\ (~Declares(channel, "DMR") /\ channel.dmr_cc.kind # "none") =>
               (Has(report.comments, "EXTRA DMR CC") /\ report.error)

\* C13: after construction a channel that declares DMR has a number as colour
\* code, 0 when none was supplied, and a channel that declares C4FM has a
\* number as DSQ/DG-ID, 0 when none was supplied.
C13_DeclaredModeDefaults ==
    /\ Declares(channel, "DMR") =>
           /\ channel.dmr_cc.kind = "num"
           /\ given.dmr_cc.kind = "none" => channel.dmr_cc.val = 0
    /\ Declares(channel, "C4FM") =>
           /\ channel.c4fm_dsq.kind = "num"
           /\ given.c4fm_dsq.kind = "none" => channel.c4fm_dsq.val = 0

\* a channel was constructed with DMR and C4FM declared and neither value given
C13_Witness ==
    /\ op = "new"
    /\ Declares(channel, "DMR") /\ Declares(channel, "C4FM")
    /\ given.dmr_cc.kind = "none" /\ given.c4fm_dsq.kind = "none"
    /\ channel.dmr_cc = Num(0) /\ channel.c4fm_dsq = Num(0)

\* the tags that the code appends without touching the error flag
Informational ==
    {"REVERSED", "NO DSQ", "DG-ID OUT OF RANGE", "DSQ OUT OF RANGE", "MULTIMODE",
     "DUPLICATE"}

OnlyInformational(comments) ==
    \A i \in 1..Len(comments) : comments[i] \in Informational

\* C14: for a channel with C4FM declared and no DSQ/DG-ID value, test() returns
\* without raising, appends NO DSQ and does not set the error flag for it; for
\* a channel without C4FM whose DSQ/DG-ID is present it appends EXTRA C4FM
\* DSQ/DG-ID and sets the error flag.
C14_MissingDsqIsAComment ==
    op = "test" =>
        /\ (Declares(channel, "C4FM") /\ given.c4fm_dsq.kind = "none") =>
               /\ ~report.raised
               /\ Has(report.comments, "NO DSQ")
               /\ (PlanMatches(channel, plan) /\ OnlyInformational(report.comments))
                      => ~report.error
        /\ (~Declares(channel, "C4FM") /\ channel.c4fm_dsq.kind # "none") =>
               (Has(report.comments, "EXTRA C4FM DSQ/DG-ID") /\ report.error)

\* C15: for a channel with C4FM declared and DSQ/DG-ID v, the report has DSQ
\* OUT OF RANGE exactly when v is outside 1..126 and DG-ID OUT OF RANGE exactly
\* when v is outside 0..99, and neither sets the error flag.
C15_DsqRanges ==
    (op = "test" /\ Declares(channel, "C4FM") /\ channel.c4fm_dsq.kind = "num") =>
        LET v == channel.c4fm_dsq.val
        IN  /\ Has(report.comments, "DSQ OUT OF RANGE") <=> ~(1 <= v /\ v <= 126)
            /\ Has(report.comments, "DG-ID OUT OF RANGE") <=> ~(0 <= v /\ v <= 99)
            /\ (PlanMatches(channel, plan) /\ OnlyInformational(report.comments))
                   => ~report.error

\* C16: the report has NO NAC (NO RAN) exactly when P25 (NXDN) is declared and
\* the NAC (RAN) is absent, and EXTRA P25 NAC (EXTRA NXDN RAN) exactly when the
\* mode is not declared and the identifier is present; each sets the error
\* flag.
C16_NacAndRanTags ==
    op = "test" =>
        LET p25 == Declares(channel, "P25")
            nac == channel.p25_nac.kind # "none"
            nxdn == Declares(channel, "NXDN")
            ran == channel.nxdn_ran.kind # "none"
        IN  /\ Has(report.comments, "NO NAC") <=> (p25 /\ ~nac)
            /\ Has(report.comments, "EXTRA P25 NAC") <=> (~p25 /\ nac)
            /\ Has(report.comments, "NO RAN") <=> (nxdn /\ ~ran)
            /\ Has(report.comments, "EXTRA NXDN RAN") <=> (~nxdn /\ ran)
            /\ (\E t \in {"NO NAC", "EXTRA P25 NAC", "NO RAN", "EXTRA NXDN RAN"} :
                    Has(report.comments, t)) => report.error

\* an NXDN channel without a RAN that carries a NAC: NO RAN and EXTRA P25 NAC
C16_Witness ==
    /\ op = "test"
    /\ Declares(channel, "NXDN") /\ ~Declares(channel, "P25")
    /\ Has(report.comments, "NO RAN")
    /\ Has(report.comments, "EXTRA P25 NAC")
    /\ report.error

\* every declared mode has its attribute and no other mode has one
AttributesInOrder(c) ==
    /\ IF Declares(c, "FM") THEN TonePresent(c) # CodePresent(c)
       ELSE ~TonePresent(c) /\ ~CodePresent(c)
    /\ Declares(c, "DMR") <=> c.dmr_cc.kind # "none"
    /\ Declares(c, "C4FM") <=> c.c4fm_dsq.kind # "none"
    /\ Declares(c, "P25") <=> c.p25_nac.kind # "none"
    /\ Declares(c, "NXDN") <=> c.nxdn_ran.kind # "none"

\* C17: the report has MULTIMODE exactly when the channel declares more than
\* one mode, and a channel of two or more modes that matches the plan, lies in
\* the region and has its attributes in order is reported without error.
C17_MultimodeIsInformational ==
    op = "test" =>
        /\ Has(report.comments, "MULTIMODE")
               <=> Cardinality({channel.modes[i] : i \in 1..Len(channel.modes)}) > 1
        /\ (/\ Len(channel.modes) > 1
            /\ PlanMatches(channel, plan)
            /\ InRegion(channel)
            /\ AttributesInOrder(channel)) => ~report.error

\* a channel of five modes with every attribute was reported MULTIMODE and
\* without error
C17_Witness ==
    /\ op = "test"
    /\ Len(channel.modes) = 5
    /\ AttributesInOrder(channel)
    /\ PlanMatches(channel, plan)
    /\ Has(report.comments, "MULTIMODE")
    /\ ~report.error

\* the place of a tag in a list of groups of tags
Place(order, t) == CHOOSE i \in 1..Len(order) : t \in order[i]

\* the tags of a report come in the order of the groups, no group twice
InOrder(order, comments) ==
    \A i, j \in 1..Len(comments) :
        i < j => Place(order, comments[i]) < Place(order, comments[j])

\* the order C18 gives: FM, DMR, P25, NXDN, C4FM
ListedOrder ==
    <<{"REVERSED"}, {"NO MODES"}, {"OUT OF BOUNDS"},
      {"NO TONE/CODE", "AMBIGUOUS TONE/CODE", "EXTRA TONE/CODE"},
      {"NO CC", "EXTRA DMR CC"},
      {"NO NAC", "EXTRA P25 NAC"},
      {"NO RAN", "EXTRA NXDN RAN"},
      {"NO DSQ", "EXTRA C4FM DSQ/DG-ID"}, {"DG-ID OUT OF RANGE"},
      {"DSQ OUT OF RANGE"},
      {"MULTIMODE"}, {"DUPLICATE"},
      {"WRONG OFFSET"}, {"MISALIGNED"}, {"TOO WIDE"}>>

\* the same with the C4FM tags between the DMR tag and the P25 tag
ListedOrderC4FMThird ==
    <<{"REVERSED"}, {"NO MODES"}, {"OUT OF BOUNDS"},
      {"NO TONE/CODE", "AMBIGUOUS TONE/CODE", "EXTRA TONE/CODE"},
      {"NO CC", "EXTRA DMR CC"},
      {"NO DSQ", "EXTRA C4FM DSQ/DG-ID"}, {"DG-ID OUT OF RANGE"},
      {"DSQ OUT OF RANGE"},
      {"NO NAC", "EXTRA P25 NAC"},
      {"NO RAN", "EXTRA NXDN RAN"},
      {"MULTIMODE"}, {"DUPLICATE"},
      {"WRONG OFFSET"}, {"MISALIGNED"}, {"TOO WIDE"}>>

\* C18 as stated: the tags of every report are in the order REVERSED, NO
\* MODES, OUT OF BOUNDS, the FM tag, the DMR tag, the P25 tag, the NXDN tag,
\* the C4FM tags, MULTIMODE, DUPLICATE, WRONG OFFSET, MISALIGNED, TOO WIDE.
C18_TagsInListedOrder ==
    op = "test" => InOrder(ListedOrder, report.comments)

\* C18, amended: the tags of every report are in the order REVERSED, NO MODES,
\* OUT OF BOUNDS, the FM tag, the DMR tag, the C4FM tags, the P25 tag, the NXDN
\* tag, MULTIMODE, DUPLICATE, WRONG OFFSET, MISALIGNED, TOO WIDE.
C18_TagsInCodeOrder ==
    op = "test" => InOrder(ListedOrderC4FMThird, report.comments)

\* a report of a second, equal row off the plan with a C4FM tag before a P25
\* tag, tags ahead of them and tags after them
C18_Witness ==
    /\ op = "test"
    /\ Has(report.comments, "NO MODES")
    /\ Has(report.comments, "OUT OF BOUNDS")
    /\ Has(report.comments, "EXTRA C4FM DSQ/DG-ID")
    /\ Has(report.comments, "EXTRA P25 NAC")
    /\ Has(report.comments, "DUPLICATE")
    /\ Has(report.comments, "WRONG OFFSET")

\* the band classifier of an entry: the leading character of its frequency
BandOf(e) == OutputText(e)[1]

\* within every group of one name, the members of one band have pairwise
\* different frequencies
FrequenciesDifferWithinBands(es) ==
    \A i, j \in 1..Len(es) :
        (i < j /\ GetName(es[i]) = GetName(es[j]) /\ BandOf(es[i]) = BandOf(es[j]))
            => es[i].output # es[j].output

NamesDistinct(es) ==
    \A i, j \in 1..Len(es) : i < j => GetName(es[i]) # GetName(es[j])

\* C19: after _dedup_names has run on a list in which the entries of one name
\* and one band have pairwise different frequencies, the names of the list
\* are pairwise distinct.
C19_NamesDistinctAfterDedup ==
    (op = "dedup" /\ FrequenciesDifferWithinBands(before)) => NamesDistinct(elist)

\* the entries whose name is the name of an earlier entry of the list
Repeats(es) ==
    {k \in 1..Len(es) : \E j \in 1..(k - 1) : GetName(es[j]) = GetName(es[k])}

\* their names in the order of the list
RepeatedNames(es) ==
    [n \in 1..Cardinality(Repeats(es)) |->
        GetName(es[CHOOSE k \in Repeats(es) :
                       Cardinality({h \in Repeats(es) : h < k}) = n - 1])]

\* C20: after the verification pass every entry whose final name is the final
\* name of an earlier entry has been logged once, no other entry has been
\* logged, and the list holds the entries it held before, in their places.
C20_SurvivingDuplicatesAreLogged ==
    op = "dedup" =>
        /\ log = RepeatedNames(elist)
        /\ Len(elist) = Len(before)
        /\ \A i \in 1..Len(elist) :
               /\ elist[i].modes = before[i].modes
               /\ elist[i].output = before[i].output

\* a list of three left with the same name on its first and its last entry:
\* one line of the log
C20_Witness ==
    /\ op = "dedup"
    /\ Len(elist) = 3
    /\ GetName(elist[1]) = GetName(elist[3])
    /\ GetName(elist[1]) # GetName(elist[2])
    /\ GetName(before[1]) = GetName(before[2])
    /\ log = <<GetName(elist[3])>>

\* the short code of a band classifier: the code has one for "4", "2" and "1"
HasBandCode(ch) == ch \in {"1", "2", "4"}

BandCode(ch) == IF ch = "4" THEN "U" ELSE IF ch = "2" THEN "2" ELSE "V"

\* the tag by priority: the digital marker for the one digital member of the
\* group, else the short code of the band for the one member of a band that
\* has a short code, else the frequency tag
PriorityTag(es, i) ==
    LET digital == {j \in SameName(es, i) : IsDigital(es[j])}
        band == {j \in SameName(es, i) : BandOf(es[j]) = BandOf(es[i])}
    IN  IF Cardinality(digital) = 1 /\ i \in digital THEN <<"D">>
        ELSE IF Cardinality(band) = 1 /\ HasBandCode(BandOf(es[i]))
             THEN <<BandCode(BandOf(es[i]))>>
        ELSE FreqTag(OutputText(es[i]))

\* the members of a group of two or more entries of one name
Grouped(es) == {i \in 1..Len(es) : Cardinality(SameName(es, i)) > 1}

\* C21: after _dedup_names was called on a list, every member of a group of
\* two or more entries of one name carries the name made with its tag by
\* priority: "D", else the short code of its band, else its frequency tag.
C21_TagByPriority ==
    op \in {"dedup", "nameerror"} =>
        \A i \in Grouped(before) :
            GetName(elist[i]) = Tagged(before[i], PriorityTag(before, i))

\* s ends with t
EndsWith(s, t) ==
    Len(t) <= Len(s) /\ SubSeq(s, Len(s) - Len(t) + 1, Len(s)) = t

\* C22: after _dedup_names was called on a list, every name of the list is
\* at most NAME_LENGTH long (16 for an OpenGD77 entry, 10 for a GD-88 entry),
\* and the name of an entry that was renamed ends with the tag it was renamed
\* with.
C22_NamesFitAndEndWithTag ==
    op \in {"dedup", "nameerror"} =>
        \A i \in 1..Len(elist) :
            /\ Len(GetName(elist[i])) <= NameLength(elist[i].kind)
            /\ applied[i].bound => EndsWith(GetName(elist[i]), applied[i].chars)

\* a GD-88 entry whose name filled the field was renamed with a frequency tag
\* of several digits
C22_Witness ==
    /\ op = "dedup"
    /\ runs = 1
    /\ \E i \in 1..Len(elist) :
           /\ elist[i].kind # OpenGD77
           /\ Len(GetName(before[i])) = GD88_NAME_LENGTH
           /\ applied[i].bound
           /\ Len(applied[i].chars) > 1
           /\ Len(GetName(elist[i])) = GD88_NAME_LENGTH

Names(es) == [i \in 1..Len(es) |-> GetName(es[i])]

\* no other entry of the list has the name of entry i
UniqueName(es, i) ==
    \A j \in 1..Len(es) : j # i => GetName(es[j]) # GetName(es[i])

\* C23 as stated: a second call of _dedup_names on the list the first call
\* left changes no name.
C23_SecondRunChangesNothing ==
    (op \in {"dedup", "nameerror"} /\ runs = 2) => Names(elist) = Names(before)

\* C23 as it holds: a second call on a list whose names the first call left
\* pairwise distinct changes no name, and any call leaves the entry of a name
\* no other entry has as it was.
C23_SecondRunKeepsDistinctNames ==
    /\ (op \in {"dedup", "nameerror"} /\ runs = 2 /\ NamesDistinct(before)) =>
           (op = "dedup" /\ elist = before)
    /\ op \in {"dedup", "nameerror"} =>
           \A i \in 1..Len(elist) : UniqueName(before, i) => elist[i] = before[i]

\* a second call on three entries the first call had tagged "D", "V" and "U"
C23_Witness ==
    /\ op = "dedup"
    /\ runs = 2
    /\ NamesDistinct(before)
    /\ {GetName(before[i]) : i \in 1..Len(before)}
           = {KX7ABC \o <<" ", t>> : t \in {"D", "V", "U"}}

\* the list es with entry p[i] in place i
Permuted(es, p) == [i \in 1..Len(es) |-> es[p[i]]]

\* C24: _dedup_names gives every entry the name it gives it when the list is
\* handed over in any other order.
C24_NamesIndependentOfOrder ==
    (op \in {"dedup", "nameerror"} /\ runs = 1) =>
        \A p \in Permutations(1..Len(before)) :
            \E again \in {DedupNames(Permuted(before, p))} :
                /\ again.raised = (op = "nameerror")
                /\ \A i \in 1..Len(before) :
                       GetName(again.elist[i]) = GetName(elist[p[i]])

\* C28: a call of _dedup_names does not raise, and every member of a group of
\* two or more entries of one name is renamed with the tag the chain gives for
\* the member's own type and frequency and the counts of its group, with no
\* tag carried over from another entry.
C28_TagIsOwnAndDefined ==
    op \in {"dedup", "nameerror"} =>
        /\ op = "dedup"
        /\ \A i \in Grouped(before) :
               /\ applied[i].bound
               /\ applied[i] = TagOf(before, i, Unbound)

\* some key of EXCEPTIONS equals the channel under Channel.__eq__
Excepted(c) == \E k \in EXCEPTIONS : ChannelEq(k, c)

\* the channel under another call sign, which no key of EXCEPTIONS has
Unlisted(c) == [c EXCEPT !.call = Str(<<"N", "0", "N", "E">>)]

\* C25: the comments of a channel's line in the delta report are test()'s
\* comments, with "ERROR!" in front exactly when test() returned an error and
\* no key of EXCEPTIONS equals the channel; and test() returns for a channel
\* that is an exception the error flag and the comments it returns for the
\* same channel under a call sign that is none.
C25_ErrorMarkUnlessExcepted ==
    op = "delta" =>
        LET c == calls[Len(calls)]
            unlisted == Test(Unlisted(c), <<>>, {}, plan)
        IN  /\ message = (IF report.error /\ ~Excepted(c) THEN <<"ERROR!">> ELSE <<>>)
                             \o report.comments
            /\ (Len(calls) = 1 /\ Excepted(c)) =>
                   /\ ~Excepted(Unlisted(c))
                   /\ unlisted.error = report.error
                   /\ unlisted.comments = report.comments

\* AA7MI on 440.725 as EXCEPTIONS lists it: in error and too wide, and its
\* line carries the comments without "ERROR!"
C25_Witness ==
    /\ op = "delta"
    /\ Len(calls) = 1
    /\ calls[1].call = Str(AA7MI)
    /\ Excepted(calls[1])
    /\ report.error
    /\ Has(report.comments, "TOO WIDE")
    /\ message = report.comments

\* the channel matches the plan only with input and output exchanged
OnlyReversed(c, pl) == ~PlanMatches(c, pl) /\ PlanMatches(Swapped(c), pl)

\* the range of some rule of the plan holds the channel's own output, and the
\* channel fails that rule
FailsARuleInRange(c, pl) ==
    \E r \in PlanRules(pl) : InRange(c, r) /\ ~FullMatch(c, r)

\* none of the checks of modes, region and mode attributes has a comment
PassesOtherChecks(c) ==
    /\ Len(c.modes) > 0
    /\ InRegion(c)
    /\ ModeComments(c) = <<>>

\* C26: for a channel that matches the plan only with input and output
\* exchanged and passes every other check, test() returns no error, with
\* REVERSED and none of WRONG OFFSET, MISALIGNED, TOO WIDE among the comments,
\* whether or not the channel's own output lies in the range of a rule it
\* fails.
C26_ReversedClearsPlanError ==
    (op = "test" /\ OnlyReversed(channel, plan) /\ PassesOtherChecks(channel)) =>
        /\ ~report.raised
        /\ ~report.error
        /\ Has(report.comments, "REVERSED")
        /\ PlanTagsOf(report.comments) = <<>>

\* such a channel whose own output lies in the range of a rule it fails, the
\* empty record of that rule in its dict
C26_Witness ==
    /\ op = "test"
    /\ OnlyReversed(channel, plan)
    /\ PassesOtherChecks(channel)
    /\ FailsARuleInRange(channel, plan)
    /\ \E i \in 1..Len(rules) : InRange(channel, rules[i].rule) /\ rules[i].match = {}
    /\ report.comments = <<"REVERSED">>

\* C27: the dict of a tested channel holds records only of rules whose range
\* holds the channel's own output, and a channel whose output no rule's range
\* holds gets none of WRONG OFFSET, MISALIGNED, TOO WIDE.
C27_RecordsOnlyOfOwnOutput ==
    op = "test" =>
        /\ \A i \in 1..Len(rules) : InRange(channel, rules[i].rule)
        /\ (\A r \in PlanRules(plan) : ~InRange(channel, r)) =>
               PlanTagsOf(report.comments) = <<>>

\* a narrow channel of the segment 147.0000 - 147.3875: output on the 12.5 kHz
\* grid, input 0.6 MHz above it, bandwidth at most 12.5 kHz
OnProposedSegment(c) ==
    /\ F(147, 0) <= c.output
    /\ c.output <= F(147, 3875)
    /\ (c.output - F(147, 0)) % F(0, 125) = 0
    /\ c.input = c.output + F(0, 6000)
    /\ c.bandwidth <= K(12, 50)

\* C29: a narrow channel on the 12.5 kHz grid of 147.0000 - 147.3875 with the
\* input 0.6 MHz above the output fully matches some rule of the plan, and its
\* report has none of WRONG OFFSET, MISALIGNED, TOO WIDE.
C29_ProposedSegmentAccepted ==
    (op = "test" /\ OnProposedSegment(channel)) =>
        /\ PlanMatches(channel, plan)
        /\ PlanTagsOf(report.comments) = <<>>

\* the value that items() yields for a key
Yields(c, key, value) ==
    \E i \in 1..Len(Items(c).pairs) :
        Items(c).pairs[i] = [key |-> key, value |-> value]

\* C30: the keys items() yields are the class's fieldnames in their order;
\* record[key] of a key in fieldnames returns, without raising, the value
\* items() yields for it, and record[key] of any other key raises KeyError.
C30_MappingProtocol ==
    /\ op = "items" =>
           /\ read.outcome = "items"
           /\ read.keys = FieldnamesOf(read.cls)
    /\ op = "getitem" =>
           IF InSeq(read.key, FieldnamesOf(read.cls))
           THEN /\ read.outcome = "value"
                /\ read.cls = BaseChannel => Yields(channel, read.key, read.value)
           ELSE read.outcome = "KeyError"

=============================================================================
